---- MODULE Spec2Model ----
\* Verification model of teamy-rust-windows-utils: the tray-console state
\* machine (examples/tray-console-demo), the console module, the log buffer
\* (BufferSink) and the tray icon lifecycle.
EXTENDS Integers, Sequences, FiniteSets, TLC

\* ---------------------------------------------------------------- state

VARIABLES
    \* TrayConsoleState (window_proc.rs:53-57)
    mode,                           \* ConsoleMode
    inherited_console_available,    \* bool
    log_buffer,                     \* content of the shared BufferSink, one element per log line
    \* the process's console as the OS sees it
    attached,                       \* "None" | "Parent" | "Default" | "Own"
    hOut,                           \* console STD_OUTPUT_HANDLE writes to
    hErr,                           \* console STD_ERROR_HANDLE writes to
    con,                            \* what the allocated console has shown, in order
    debug_enabled,                  \* whether debug! events pass the level filter
    \* observation of the last show_logs / hide_logs call
    last,                           \* [op, pre_mode, ok, calls, snap, out]
    rt,                             \* progress of the sequence hide, show, hide since construction
    detachRun,                      \* detaches issued by show_logs since the last hide_logs call
    \* BufferSink under concurrent use (buffer_sink.rs:31-33), byte by byte
    buffer,                         \* Vec<u8> inside the Mutex
    mutex,                          \* the thread holding the lock, or "free"
    pc,                             \* each thread's position in write / replay
    sent,                           \* per thread: write calls that have returned
    wi,                             \* per thread: bytes of the current payload copied
    rout,                           \* what the current replay has written to its writer
    rsnap,                          \* the buffer when the current replay took the lock
    rn,                             \* length of the slice write_all was given
    rres,                           \* result of the last replay: "none" | "ok" | "err"
    replays,                        \* replays finished
    \* tray icon (tray/add.rs, tray/delete.rs) and the shell's notification area
    TRAY_STATE,                     \* Option<MinimalTrayState>
    shell,                          \* per window: the icon registered under ID_TRAYICON
    trayLast,                       \* observation of the last tray call
    lastGood,                       \* descriptor of the most recent successful add_tray_icon
    \* the tray window, its procedure and the message loop (window_proc.rs, message_loop.rs)
    CONFIG,                         \* OnceLock<TrayConsoleConfig>
    cfgLast,                        \* observation of the last configure_tray_console call
    win,                            \* the window: "none" | "alive" | "failed" | "destroyed"
    userdata,                       \* GWLP_USERDATA: 0, or the address of the boxed state
    heap,                           \* the boxed TrayConsoleState: "none" | "live" | "freed"
    frees,                          \* how many times a boxed state has been dropped
    queue,                          \* the thread's posted messages, oldest first
    quitPosted,                     \* PostQuitMessage has been called
    loop,                           \* run_message_loop: "main" (not entered) | "get" | "dispatch" | "returned"
    retrieved,                      \* messages GetMessageW has handed to the loop, in order
    dispatched,                     \* messages the loop has dispatched, in order
    posts,                          \* messages posted from outside the window procedure so far
    creates,                        \* 1 once create_window_for_tray has been called
    exitState,                      \* "no" | "selected" (Exit chosen in the menu) | "closing" (close delivered)
    wlast,                          \* observation of the last window_proc call
    \* the shell's context menu for a path (shell/context_menu.rs)
    hmenu,                          \* the popup menu QueryContextMenu has populated
    entries,                        \* Option<Vec<ContextMenuEntry>>: what walk_menu returned
    \* MicServiceState and the recording threads (services/mic_service.rs)
    sessions,                       \* HashMap<String, RecordingSession>, per device id
    threads,                        \* the recording threads spawned, in order: [dev, st, err, call, join]
    micLast,                        \* observation of the last call that returned
    micCalls,                       \* calls made so far
    \* the command line round trip (cli/, tests/cli_fuzzing.rs)
    cli,                            \* the Cli value generated
    args,                           \* Option<Vec<OsString>>: cli.to_args()
    parsed,                         \* Option<Result<Cli>>: Cli::try_parse_from
    \* the heartbeat logger (tray-console-demo/src/main.rs:26, 91-106)
    HEARTBEAT_RUNNING,              \* AtomicBool
    hbThreads,                      \* the heartbeat threads spawned, in order: [alive, turns]
    hbPending,                      \* spawn calls between their swap and their thread::spawn
    hbCalls,                        \* spawn and stop calls made so far
    \* run_message_loop(Some(window)) (event_loop/message_loop.rs, tray-demo)
    mlValid,                        \* the window passed to run_message_loop exists
    mlQueue,                        \* messages posted to that window
    mlQuit,                         \* PostQuitMessage was called on the thread
    mlMsg,                          \* run_message_loop's MSG buffer
    mlRet,                          \* what the last GetMessageW call returned
    mlPc,                           \* where run_message_loop stands
    mlCalls,                        \* GetMessageW calls made so far
    mlDispatched,                   \* the DispatchMessageW calls made: [msg, ret]
    \* the file service (services/fs_service.rs)
    files,                          \* FsServiceState.files: HashMap<u32, OpenFile>, id -> path
    next_handle,                    \* AtomicU32
    fsOpening,                      \* opens between their fetch_add and their insert: id -> path
    fsIssued,                       \* the handle ids open has returned, in order
    fsClosed,                       \* the handle ids close has closed
    fsLast,                         \* observation of the last call that returned
    fsCalls,                        \* calls made so far
    \* NetworkAdapters (network/network_adapters.rs)
    netBuffer,                      \* self.buffer.len()
    attempts,                       \* refresh's overflow counter
    netPc,                          \* "idle", "loop" (inside refresh), "ok", "err"
    netCalls,                       \* GetAdaptersAddresses calls of the current refresh
    netStatus,                      \* the status of the last call
    netSize,                        \* buffer_size after the last call
    netRefreshes                    \* refresh calls made so far

consoleVars ==
    << mode, inherited_console_available, log_buffer, attached, hOut, hErr,
       con, debug_enabled, last, rt, detachRun >>

sinkVars == << buffer, mutex, pc, sent, wi, rout, rsnap, rn, rres, replays >>

trayVars == << TRAY_STATE, shell, trayLast, lastGood >>

windowVars ==
    << CONFIG, cfgLast, win, userdata, heap, frees, queue, quitPosted, loop,
       retrieved, dispatched, posts, creates, exitState, wlast >>

menuVars == << hmenu, entries >>

micVars == << sessions, threads, micLast, micCalls >>

cliVars == << cli, args, parsed >>

\* the subsystems that share nothing with the tray-console demo
hbVars == << HEARTBEAT_RUNNING, hbThreads, hbPending, hbCalls >>

mlVars == << mlValid, mlQueue, mlQuit, mlMsg, mlRet, mlPc, mlCalls, mlDispatched >>

fsVars == << files, next_handle, fsOpening, fsIssued, fsClosed, fsLast, fsCalls >>

netVars == << netBuffer, attempts, netPc, netCalls, netStatus, netSize, netRefreshes >>

moreVars == << hbVars, mlVars, fsVars, netVars >>

extVars == << menuVars, micVars, cliVars, moreVars >>

vars == << consoleVars, sinkVars, trayVars, windowVars, extVars >>

\* ---------------------------------------------------------------- bounds

\* No show_logs / hide_logs / heartbeat starts once the buffer holds this many lines.
MaxBuf == 6

\* The heartbeat thread logs at most this many lines.
MaxBeats == 1

\* ---------------------------------------------------------------- helpers

IsPrefix(s, t) == Len(s) <= Len(t) /\ SubSeq(t, 1, Len(s)) = s

\* The world the console functions act on: the state above, as one record.
World ==
    [ mode |-> mode, inherited |-> inherited_console_available,
      buf |-> log_buffer, attached |-> attached, hOut |-> hOut, hErr |-> hErr,
      con |-> con, debug |-> debug_enabled,
      calls |-> << >>, osFail |-> FALSE, snap |-> << >>, out |-> << >> ]

\* ---------------------------------------------------------------- log buffer

\* impl Write for BufferSink: lock, extend_from_slice, Ok(len)
write(content, payload) == content \o payload

\* impl Write for BufferSink: flush is Ok(()) and touches nothing
flush(content) == content

HDR == "=== Previous Logs ==="
FTR == "=== End of Previous Logs ==="

\* replay that leaves out the end marker
replay_unterminated(content, failAt) ==
    [ buffer |-> content,
      out |-> IF failAt = "w_hdr" THEN << >>
              ELSE IF failAt = "w_body" THEN << HDR >> ELSE << HDR >> \o content,
      ok |-> failAt \notin {"w_hdr", "w_body", "w_ftr"} ]

\* replay that drains the buffer it has written
replay_draining(content, failAt) ==
    [ buffer |-> << >>,
      out |-> IF failAt = "w_hdr" THEN << >>
              ELSE IF failAt = "w_body" THEN << HDR >>
              ELSE IF failAt = "w_ftr" THEN << HDR >> \o content
              ELSE << HDR >> \o content \o << FTR >>,
      ok |-> failAt \notin {"w_hdr", "w_body", "w_ftr"} ]

\* BufferSink::replay: header line, the whole buffer, footer line; a writer error
\* at any of the three writes returns at once. failAt is the write that fails.
replay(content, failAt) ==
    LET hdr == IF failAt = "w_hdr" THEN << >> ELSE << HDR >>
        body == IF failAt \in {"w_hdr", "w_body"} THEN << >> ELSE content
        ftr == IF failAt \in {"w_hdr", "w_body", "w_ftr"} THEN << >> ELSE << FTR >>
    IN [ buffer |-> content, out |-> hdr \o body \o ftr,
         ok |-> failAt \notin {"w_hdr", "w_body", "w_ftr"} ]

\* One tracing event through the subscriber's writer std::io::stderr.and(LOG_BUFFER):
\* the formatted line goes to stderr (shown when stderr is the allocated console)
\* and is appended to the buffer.
LogLine(w, line) ==
    [ w EXCEPT
        !.con = IF w.hErr = "Own" /\ w.attached = "Own"
                THEN Append(@, [src |-> "stderr", line |-> line]) ELSE @,
        !.buf = flush(write(@, << line >>)) ]

\* debug! events are emitted only when the DEBUG level is enabled.
LogDebug(w, line) == IF w.debug THEN LogLine(w, line) ELSE w

\* ---------------------------------------------------------------- console module

OsCall(name, ok, pre) == [call |-> name, ok |-> ok, pre |-> pre]

\* unbind_and_close_std_handles_for_detach: std handles reset to null and closed
unbind_and_close_std_handles_for_detach(w) ==
    [ w EXCEPT !.hOut = "None", !.hErr = "None" ]

\* console_detach: log, unbind the std handles, FreeConsole.
\* FreeConsole fails when no console is attached; fault makes it fail anyway.
console_detach(w, fault) ==
    LET w1 == LogLine(w, "Detaching from this console")
        w2 == unbind_and_close_std_handles_for_detach(w1)
        ok == w2.attached # "None" /\ ~fault
        w3 == [ w2 EXCEPT
                  !.calls = Append(@, OsCall("FreeConsole", ok, w2.attached)),
                  !.osFail = @ \/ ~ok,
                  !.attached = IF ok THEN "None" ELSE @,
                  !.con = IF ok THEN << >> ELSE @ ]
    IN [ w |-> w3, ok |-> ok ]

\* rebind_std_handles_to_console: open CONOUT$, SetStdHandle(STDOUT), SetStdHandle(STDERR);
\* each may fail and return early.
rebind_std_handles_to_console(w, fail) ==
    IF fail \in {"open", "setout"} THEN [ w |-> [w EXCEPT !.osFail = TRUE], ok |-> FALSE ]
    ELSE IF fail = "seterr"
    THEN [ w |-> [w EXCEPT !.hOut = w.attached, !.osFail = TRUE], ok |-> FALSE ]
    ELSE [ w |-> [w EXCEPT !.hOut = w.attached, !.hErr = w.attached], ok |-> TRUE ]

\* console_create: AllocConsole, rebind the std handles, ctrl+c handler and ANSI
\* (both continue on error), then two info lines.
\* AllocConsole fails when a console is already attached.
console_create(w, o) ==
    LET allocOk == w.attached = "None" /\ o.fail # "alloc"
        w1 == [ w EXCEPT
                  !.calls = Append(@, OsCall("AllocConsole", allocOk, w.attached)),
                  !.osFail = @ \/ ~allocOk,
                  !.attached = IF allocOk THEN "Own" ELSE @,
                  !.con = IF allocOk THEN << >> ELSE @ ]
        r2 == rebind_std_handles_to_console(w1, o.fail)
        w3 == LogDebug(r2.w, "Attaching console ctrl+c handler")
        w4 == IF o.ctrl THEN w3
              ELSE LogLine([w3 EXCEPT !.osFail = TRUE], "Failed to set console control handler")
        w5 == IF o.ansi THEN w4
              ELSE LogLine([w4 EXCEPT !.osFail = TRUE], "Failed to enable ANSI support")
        w6 == LogLine(w5, "Console allocated, new logs will be visible here.")
        w7 == LogLine(w6, "Closing this window will exit the program.")
    IN IF ~allocOk THEN [ w |-> w1, ok |-> FALSE ]
       ELSE IF ~r2.ok THEN r2
       ELSE [ w |-> w7, ok |-> TRUE ]

\* console_attach(ATTACH_PARENT_PROCESS): attach to the parent's console and
\* associate the standard streams with it. AttachConsole fails when a console is
\* already attached.
console_attach(w, fault) ==
    LET ok == w.attached = "None" /\ ~fault
    IN [ w |-> [ w EXCEPT
                   !.calls = Append(@, OsCall("AttachConsole", ok, w.attached)),
                   !.osFail = @ \/ ~ok,
                   !.attached = IF ok THEN "Parent" ELSE @,
                   !.hOut = IF ok THEN "Parent" ELSE @,
                   !.hErr = IF ok THEN "Parent" ELSE @ ],
         ok |-> ok ]

\* ---------------------------------------------------------------- TrayConsoleState

\* TrayConsoleState::new
InitialMode(inherited) == IF inherited THEN "Inherited" ELSE "Detached"

\* show_logs without its guard
can_show_logs_always(w) == TRUE

can_show_logs(w) == w.mode # "Owned"

can_hide_logs(w) == w.mode = "Owned"

\* What the writer std::io::stdout() shows on the allocated console.
ToStdout(w, lines) ==
    IF w.hOut = "Own" /\ w.attached = "Own"
    THEN [i \in 1..Len(lines) |-> [src |-> "stdout", line |-> lines[i]]]
    ELSE << >>

HeartbeatLine == "Ahoy! Heartbeat log from tray-console-demo"

\* TrayConsoleState::replay_buffer: replay into stdout, then flush (result ignored).
\* With o.hb = "during_replay" the heartbeat thread logs while replay holds the
\* buffer's lock: its stderr write lands after the header, its buffer append
\* after the lock is released.
replay_buffer(w, o) ==
    LET r == replay(w.buf, o.fail)
        shown == ToStdout(w, r.out)
        hbNow == o.hb = "during_replay" /\ Len(shown) >= 1
        hbItem == IF hbNow /\ w.hErr = "Own"
                  THEN << [src |-> "stderr", line |-> HeartbeatLine] >> ELSE << >>
        con1 == IF hbNow
                THEN w.con \o SubSeq(shown, 1, 1) \o hbItem \o SubSeq(shown, 2, Len(shown))
                ELSE w.con \o shown
        buf1 == IF hbNow THEN write(r.buffer, << HeartbeatLine >>) ELSE r.buffer
    IN [ w |-> [ w EXCEPT
                   !.calls = Append(@, OsCall("replay", r.ok, w.attached)),
                   !.osFail = @ \/ ~r.ok,
                   !.snap = w.buf, !.out = r.out,
                   !.con = con1, !.buf = buf1 ],
         ok |-> r.ok ]

\* show_logs that sets the mode as soon as the console is allocated
show_logs_owned_before_replay(w, o) ==
    IF ~can_show_logs(w)
    THEN [ w |-> LogDebug(w, "Show logs requested while already owning console"), ok |-> TRUE ]
    ELSE
    LET r1 == IF w.mode = "Inherited" THEN console_detach(w, o.fail = "free")
              ELSE [ w |-> w, ok |-> TRUE ]
        r2 == console_create(r1.w, o)
        w2 == IF o.hb = "after_create" THEN LogLine(r2.w, HeartbeatLine) ELSE r2.w
        r3 == replay_buffer([w2 EXCEPT !.mode = "Owned"], o)
        w4 == LogLine(r3.w, "Console window allocated; new logs will stream live")
    IN IF ~r1.ok THEN r1
       ELSE IF ~r2.ok THEN r2
       ELSE IF ~r3.ok THEN r3
       ELSE [ w |-> w4, ok |-> TRUE ]

\* TrayConsoleState::show_logs
show_logs(w, o) ==
    IF ~can_show_logs(w)
    THEN [ w |-> LogDebug(w, "Show logs requested while already owning console"), ok |-> TRUE ]
    ELSE
    LET r1 == IF w.mode = "Inherited" THEN console_detach(w, o.fail = "free")
              ELSE [ w |-> w, ok |-> TRUE ]
        r2 == console_create(r1.w, o)
        w2 == IF o.hb = "after_create" THEN LogLine(r2.w, HeartbeatLine) ELSE r2.w
        r3 == replay_buffer(w2, o)
        w4 == LogLine([r3.w EXCEPT !.mode = "Owned"],
                      "Console window allocated; new logs will stream live")
    IN IF ~r1.ok THEN r1
       ELSE IF ~r2.ok THEN r2
       ELSE IF ~r3.ok THEN r3
       ELSE [ w |-> w4, ok |-> TRUE ]

\* hide_logs that forgets the inherited console
hide_logs_never_reattaches(w, o) ==
    IF ~can_hide_logs(w)
    THEN [ w |-> LogDebug(w, "Hide logs requested while console is already hidden"), ok |-> TRUE ]
    ELSE
    LET r1 == console_detach(w, o.fail = "free")
    IN IF ~r1.ok THEN r1
       ELSE [ w |-> LogLine([r1.w EXCEPT !.mode = "Detached"], "Logs hidden; no console attached"),
              ok |-> TRUE ]

\* TrayConsoleState::hide_logs
hide_logs(w, o) ==
    IF ~can_hide_logs(w)
    THEN [ w |-> LogDebug(w, "Hide logs requested while console is already hidden"), ok |-> TRUE ]
    ELSE
    LET r1 == console_detach(w, o.fail = "free")
        r2 == console_attach(r1.w, o.fail = "attach")
        w3 == LogLine([r2.w EXCEPT !.mode = "Inherited"], "Logs routed back to parent console")
        w4 == LogLine([r1.w EXCEPT !.mode = "Detached"], "Logs hidden; no console attached")
    IN IF ~r1.ok THEN r1
       ELSE IF w.inherited
            THEN (IF ~r2.ok THEN r2 ELSE [ w |-> w3, ok |-> TRUE ])
            ELSE [ w |-> w4, ok |-> TRUE ]

\* ---------------------------------------------------------------- outcomes

\* The first OS call of show_logs that fails for a reason of its own ("none": no
\* such call), whether the two continue-on-error calls succeed, and where the
\* heartbeat thread's log line falls.
ShowOutcomes ==
    [ fail : {"none", "free", "alloc", "open", "setout", "seterr", "w_hdr", "w_body", "w_ftr"},
      ctrl : BOOLEAN, ansi : BOOLEAN,
      hb : {"none", "after_create", "during_replay"} ]

HideOutcomes == [ fail : {"none", "free", "attach"} ]

\* ---------------------------------------------------------------- startup

\* main (tray-console-demo) up to the window's creation message, from the
\* console the process was started with: is_inheriting_console,
\* hide_default_console_or_attach_ctrl_handler, configure, TrayConsoleState::new.
Startup(pre, dbg, fault) ==
    LET w0 == [ mode |-> "Detached", inherited |-> pre = "Parent",
                buf |-> << >>, attached |-> pre, hOut |-> pre, hErr |-> pre,
                con |-> << >>, debug |-> dbg,
                calls |-> << >>, osFail |-> FALSE, snap |-> << >>, out |-> << >> ]
        w1 == IF w0.inherited
              THEN LogDebug(w0, "Attaching console ctrl+c handler")
              ELSE console_detach(w0, fault).w
    IN [ w1 EXCEPT !.mode = InitialMode(w0.inherited) ]

NoOp == [ op |-> "none", pre_mode |-> "Detached", ok |-> TRUE,
          calls |-> << >>, snap |-> << >>, out |-> << >> ]

SetWorld(w) ==
    /\ mode' = w.mode
    /\ log_buffer' = w.buf
    /\ attached' = w.attached
    /\ hOut' = w.hOut
    /\ hErr' = w.hErr
    /\ con' = w.con
    /\ UNCHANGED << inherited_console_available, debug_enabled, sinkVars, trayVars,
                    windowVars, extVars >>

InitConsole ==
    \E pre \in {"None", "Parent", "Default"}, dbg \in BOOLEAN, fault \in BOOLEAN :
        LET w == Startup(pre, dbg, fault) IN
        /\ mode = w.mode
        /\ inherited_console_available = w.inherited
        /\ log_buffer = w.buf
        /\ attached = w.attached
        /\ hOut = w.hOut
        /\ hErr = w.hErr
        /\ con = w.con
        /\ debug_enabled = dbg
        /\ last = NoOp
        /\ rt = "start"
        /\ detachRun = 0

\* ---------------------------------------------------------------- actions

Beats == Cardinality({i \in 1..Len(log_buffer) : log_buffer[i] = HeartbeatLine})

CountCalls(calls, name) == Cardinality({i \in 1..Len(calls) : calls[i].call = name})

\* A request to show the logs (tray double-click, or "Show logs" in the menu):
\* show_logs, whose error the caller logs and swallows.
ShowLogs ==
    /\ Len(log_buffer) < MaxBuf
    /\ \E o \in ShowOutcomes :
        /\ o.hb # "none" => Beats < MaxBeats
        /\ LET r == show_logs(World, o)
            w == IF r.ok THEN r.w ELSE LogLine(r.w, "Failed to show logs")
            clean == ~r.w.osFail /\ r.ok
           IN
           /\ SetWorld(w)
           /\ last' = [ op |-> "show", pre_mode |-> mode, ok |-> r.ok,
                        calls |-> r.w.calls, snap |-> r.w.snap, out |-> r.w.out ]
           /\ rt' = IF rt = "h" /\ clean THEN "hs" ELSE "off"
           /\ detachRun' = IF detachRun + CountCalls(r.w.calls, "FreeConsole") >= 2 THEN 2
                           ELSE detachRun + CountCalls(r.w.calls, "FreeConsole")

\* "Hide logs" in the menu: hide_logs, whose error the caller logs and swallows.
HideLogs ==
    /\ Len(log_buffer) < MaxBuf
    /\ \E o \in HideOutcomes :
        LET r == hide_logs(World, o)
            w == IF r.ok THEN r.w ELSE LogLine(r.w, "Failed to hide logs")
            clean == ~r.w.osFail /\ r.ok
        IN
        /\ SetWorld(w)
        /\ last' = [ op |-> "hide", pre_mode |-> mode, ok |-> r.ok,
                     calls |-> r.w.calls, snap |-> r.w.snap, out |-> r.w.out ]
        /\ rt' = IF rt = "start" /\ clean THEN "h"
                 ELSE IF rt = "hs" /\ clean THEN "hsh" ELSE "off"
        /\ detachRun' = 0

\* One turn of the heartbeat thread's loop between two window messages.
Heartbeat ==
    /\ Len(log_buffer) < MaxBuf
    /\ Beats < MaxBeats
    /\ SetWorld(LogLine(World, HeartbeatLine))
    /\ UNCHANGED << last, rt, detachRun >>

\* ---------------------------------------------------------------- BufferSink, concurrently

\* Threads holding a clone of LOG_BUFFER: the heartbeat thread and the UI thread
\* (tracing events), and a child-output hook thread (hook_io_inner).
Threads == {"heartbeat", "ui", "hook"}

\* The heartbeat and hook threads each make at most this many write calls.
MaxWrites == 2

\* The UI thread replays at most this many times.
MaxReplays == 1

\* The bytes of thread t's k-th write call. A tracing event is one write of the
\* formatted line; hook_io_inner's write_fmt("{line}\n") makes two write calls,
\* the line and then the newline.
Payload(t, k) ==
    IF t = "hook" /\ k % 2 = 0
    THEN << [t |-> t, k |-> k, b |-> 1] >>
    ELSE << [t |-> t, k |-> k, b |-> 1], [t |-> t, k |-> k, b |-> 2] >>

\* a lock that does not wait for its holder
lock_without_waiting(t) == TRUE

\* self.lock().unwrap() returns only once the mutex is free
lock(t) == mutex = "free"

\* Write calls thread t may make: the UI thread logs once per replay it runs.
WriteBudget(t) == IF t = "ui" THEN MaxReplays ELSE MaxWrites

\* Write::write, first half: take the lock.
WriteLock(t) ==
    /\ pc[t] = "idle"
    /\ sent[t] < WriteBudget(t)
    /\ lock(t)
    /\ mutex' = t
    /\ pc' = [pc EXCEPT ![t] = "copy"]
    /\ wi' = [wi EXCEPT ![t] = 0]
    /\ UNCHANGED << buffer, sent, rout, rsnap, rn, rres, replays, consoleVars, trayVars, windowVars, extVars >>

\* Write::write, extend_from_slice: the payload's bytes are copied to the end.
WriteCopy(t) ==
    /\ pc[t] = "copy"
    /\ buffer' = Append(buffer, Payload(t, sent[t] + 1)[wi[t] + 1])
    /\ wi' = [wi EXCEPT ![t] = @ + 1]
    /\ pc' = [pc EXCEPT ![t] = IF wi[t] + 1 = Len(Payload(t, sent[t] + 1)) THEN "unlock" ELSE "copy"]
    /\ UNCHANGED << mutex, sent, rout, rsnap, rn, rres, replays, consoleVars, trayVars, windowVars, extVars >>

\* Write::write, end: the guard is dropped and Ok(buf.len()) returned.
WriteUnlock(t) ==
    /\ pc[t] = "unlock"
    /\ mutex' = "free"
    /\ sent' = [sent EXCEPT ![t] = @ + 1]
    /\ wi' = [wi EXCEPT ![t] = 0]
    /\ pc' = [pc EXCEPT ![t] = "idle"]
    /\ UNCHANGED << buffer, rout, rsnap, rn, rres, replays, consoleVars, trayVars, windowVars, extVars >>

\* Write::flush: Ok(()), nothing else.
Flush(t) ==
    /\ pc[t] = "idle"
    /\ sent[t] > 0
    /\ buffer' = flush(buffer)
    /\ UNCHANGED << mutex, pc, sent, wi, rout, rsnap, rn, rres, replays, consoleVars, trayVars, windowVars, extVars >>

\* BufferSink::replay on the UI thread: take the lock.
ReplayLock ==
    /\ pc["ui"] = "idle"
    /\ replays < MaxReplays
    /\ lock("ui")
    /\ mutex' = "ui"
    /\ rsnap' = buffer
    /\ rout' = << >>
    /\ rres' = "none"
    /\ pc' = [pc EXCEPT !["ui"] = "r_hdr"]
    /\ UNCHANGED << buffer, sent, wi, rn, replays, consoleVars, trayVars, windowVars, extVars >>

\* writeln!(writer, "=== Previous Logs ===")?
ReplayHeader ==
    /\ pc["ui"] = "r_hdr"
    /\ \E werr \in BOOLEAN :
        IF werr
        THEN /\ rres' = "err"
             /\ pc' = [pc EXCEPT !["ui"] = "r_unlock"]
             /\ UNCHANGED << rout, rn >>
        ELSE /\ rout' = Append(rout, HDR)
             /\ rn' = Len(buffer)
             /\ pc' = [pc EXCEPT !["ui"] = "r_body"]
             /\ UNCHANGED rres
    /\ UNCHANGED << buffer, mutex, sent, wi, rsnap, replays, consoleVars, trayVars, windowVars, extVars >>

\* writer.write_all(&buffer)?, a byte at a time
ReplayBody ==
    /\ pc["ui"] = "r_body"
    /\ \E werr \in BOOLEAN :
        IF werr
        THEN /\ rres' = "err"
             /\ pc' = [pc EXCEPT !["ui"] = "r_unlock"]
             /\ UNCHANGED rout
        ELSE IF Len(rout) - 1 < rn
        THEN /\ rout' = Append(rout, buffer[Len(rout)])
             /\ UNCHANGED << pc, rres >>
        ELSE /\ pc' = [pc EXCEPT !["ui"] = "r_ftr"]
             /\ UNCHANGED << rout, rres >>
    /\ UNCHANGED << buffer, mutex, sent, wi, rsnap, rn, replays, consoleVars, trayVars, windowVars, extVars >>

\* writeln!(writer, "=== End of Previous Logs ===")?
ReplayFooter ==
    /\ pc["ui"] = "r_ftr"
    /\ \E werr \in BOOLEAN :
        IF werr
        THEN /\ rres' = "err"
             /\ UNCHANGED rout
        ELSE /\ rout' = Append(rout, FTR)
             /\ rres' = "ok"
    /\ pc' = [pc EXCEPT !["ui"] = "r_unlock"]
    /\ UNCHANGED << buffer, mutex, sent, wi, rsnap, rn, replays, consoleVars, trayVars, windowVars, extVars >>

\* replay returns: the guard is dropped.
ReplayUnlock ==
    /\ pc["ui"] = "r_unlock"
    /\ mutex' = "free"
    /\ replays' = replays + 1
    /\ pc' = [pc EXCEPT !["ui"] = "idle"]
    /\ UNCHANGED << buffer, sent, wi, rout, rsnap, rn, rres, consoleVars, trayVars, windowVars, extVars >>

InitSinkIdle ==
    /\ buffer = << >>
    /\ mutex = "free"
    /\ pc = [t \in Threads |-> "idle"]
    /\ sent = [t \in Threads |-> 0]
    /\ wi = [t \in Threads |-> 0]
    /\ rout = << >>
    /\ rsnap = << >>
    /\ rn = 0
    /\ rres = "none"
    /\ replays = 0

NextSink ==
    \/ \E t \in Threads : WriteLock(t)
    \/ \E t \in Threads : WriteCopy(t)
    \/ \E t \in Threads : WriteUnlock(t)
    \/ \E t \in Threads : Flush(t)
    \/ ReplayLock
    \/ ReplayHeader
    \/ ReplayBody
    \/ ReplayFooter
    \/ ReplayUnlock

\* ---------------------------------------------------------------- tray icon

\* szTip: [u16; 128]
TipLen == 128

ID_TRAYICON == 1

\* the icon ID delete_tray_icon unregisters
TRAY_ICON_ID == 1

Hwnds == {1, 2}
Icons == {10, 11}
Tooltips == { << >>, << 84 >>, << 84, 67 >> }

\* Option<T>: None is the empty sequence, Some(x) the sequence of x alone.
None == << >>
Some(x) == << x >>

\* szTip = [0; 128]; szTip[..tooltip.len()].copy_from_slice(tooltip)
szTip(tooltip) == [i \in 1..TipLen |-> IF i <= Len(tooltip) THEN tooltip[i] ELSE 0]

\* The NOTIFYICONDATAW add_tray_icon and re_add_tray_icon build.
NotifyIconData(hwnd, icon, tip) ==
    [ hWnd |-> hwnd, uID |-> ID_TRAYICON, hIcon |-> icon, szTip |-> tip ]

\* Shell_NotifyIconW(NIM_ADD): refused when the window already has an icon with
\* this ID; fault makes the shell refuse anyway.
ShellAdd(sh, nid, fault) ==
    LET ok == sh[nid.hWnd] = None /\ ~fault
    IN [ shell |-> IF ok THEN [sh EXCEPT ![nid.hWnd] = Some(nid)] ELSE sh, ok |-> ok ]

\* Shell_NotifyIconW(NIM_DELETE): refused when the window has no icon with this ID.
ShellDelete(sh, hwnd, id, fault) ==
    LET ok == sh[hwnd] # None /\ sh[hwnd][1].uID = id /\ ~fault
    IN [ shell |-> IF ok THEN [sh EXCEPT ![hwnd] = None] ELSE sh, ok |-> ok ]

\* add_tray_icon that stores the state before asking the shell
add_tray_icon_stores_first(st, sh, hwnd, icon, tooltip, fault) ==
    LET nid == NotifyIconData(hwnd, icon, szTip(tooltip))
        r == ShellAdd(sh, nid, fault)
    IN [ state |-> Some([hwnd_bits |-> hwnd, hicon_bits |-> icon, tip |-> nid.szTip]),
         shell |-> r.shell, ok |-> r.ok,
         calls |-> << [msg |-> "NIM_ADD", nid |-> nid] >> ]

\* add_tray_icon: build the descriptor, NIM_ADD, and only then store the state
add_tray_icon(st, sh, hwnd, icon, tooltip, fault) ==
    LET nid == NotifyIconData(hwnd, icon, szTip(tooltip))
        r == ShellAdd(sh, nid, fault)
    IN [ state |-> IF r.ok
                   THEN Some([hwnd_bits |-> hwnd, hicon_bits |-> icon, tip |-> nid.szTip])
                   ELSE st,
         shell |-> r.shell, ok |-> r.ok,
         calls |-> << [msg |-> "NIM_ADD", nid |-> nid] >> ]

\* re_add_tray_icon that takes a missing state for nothing to do
re_add_tray_icon_lenient(st, sh, fault) ==
    IF st = None
    THEN [ state |-> st, shell |-> sh, ok |-> TRUE, calls |-> << >> ]
    ELSE LET nid == NotifyIconData(st[1].hwnd_bits, st[1].hicon_bits, st[1].tip)
             r == ShellAdd(sh, nid, fault)
         IN [ state |-> st, shell |-> r.shell, ok |-> r.ok,
              calls |-> << [msg |-> "NIM_ADD", nid |-> nid] >> ]

\* re_add_tray_icon: NIM_ADD from the stored state, or an error when there is none
re_add_tray_icon(st, sh, fault) ==
    IF st = None
    THEN [ state |-> st, shell |-> sh, ok |-> FALSE, calls |-> << >> ]
    ELSE LET nid == NotifyIconData(st[1].hwnd_bits, st[1].hicon_bits, st[1].tip)
             r == ShellAdd(sh, nid, fault)
         IN [ state |-> st, shell |-> r.shell, ok |-> r.ok,
              calls |-> << [msg |-> "NIM_ADD", nid |-> nid] >> ]

\* delete_tray_icon: NIM_DELETE for (hwnd, TRAY_ICON_ID); the shell's refusal is the error
delete_tray_icon(st, sh, hwnd, fault) ==
    LET r == ShellDelete(sh, hwnd, TRAY_ICON_ID, fault)
    IN [ state |-> st, shell |-> r.shell, ok |-> r.ok,
         calls |-> << [msg |-> "NIM_DELETE", nid |-> [hWnd |-> hwnd, uID |-> TRAY_ICON_ID]] >> ]

TraySet(r, op, hwnd) ==
    /\ TRAY_STATE' = r.state
    /\ shell' = r.shell
    /\ trayLast' = [ op |-> op, hwnd |-> hwnd, ok |-> r.ok, calls |-> r.calls,
                     again |-> op = "delete" /\ trayLast.op = "delete"
                               /\ trayLast.ok /\ trayLast.hwnd = hwnd ]

AddTrayIcon ==
    \E hwnd \in Hwnds, icon \in Icons, tooltip \in Tooltips, fault \in BOOLEAN :
        LET r == add_tray_icon(TRAY_STATE, shell, hwnd, icon, tooltip, fault) IN
        /\ TraySet(r, "add", hwnd)
        /\ lastGood' = IF r.ok THEN Some(r.calls[1].nid) ELSE lastGood
        /\ UNCHANGED << consoleVars, sinkVars, windowVars, extVars >>

\* The taskbar-created broadcast reaches the window procedure.
ReAddTrayIcon ==
    \E fault \in BOOLEAN :
        LET r == re_add_tray_icon(TRAY_STATE, shell, fault) IN
        /\ TraySet(r, "re_add", 0)
        /\ UNCHANGED << lastGood, consoleVars, sinkVars, windowVars, extVars >>

DeleteTrayIcon ==
    \E hwnd \in Hwnds, fault \in BOOLEAN :
        LET r == delete_tray_icon(TRAY_STATE, shell, hwnd, fault) IN
        /\ TraySet(r, "delete", hwnd)
        /\ UNCHANGED << lastGood, consoleVars, sinkVars, windowVars, extVars >>

\* Explorer restarts: the new taskbar has no icons.
ExplorerRestart ==
    /\ shell' = [h \in Hwnds |-> None]
    /\ trayLast' = [ op |-> "restart", hwnd |-> 0, ok |-> TRUE, calls |-> << >>, again |-> FALSE ]
    /\ UNCHANGED << TRAY_STATE, lastGood, consoleVars, sinkVars, windowVars, extVars >>

InitTrayIdle ==
    /\ TRAY_STATE = None
    /\ shell = [h \in Hwnds |-> None]
    /\ trayLast = [ op |-> "none", hwnd |-> 0, ok |-> TRUE, calls |-> << >>, again |-> FALSE ]
    /\ lastGood = None

NextTray ==
    \/ AddTrayIcon
    \/ ReAddTrayIcon
    \/ DeleteTrayIcon
    \/ ExplorerRestart

\* ---------------------------------------------------------------- window procedure

\* The window create_window_for_tray makes, the icon and tooltip main passes.
TrayHwnd == 1
TrayIcon == 10
TrayTooltip == << 84, 67 >>

\* At most this many messages are posted to the window from outside its procedure.
MaxPosts == 2

\* At most this many OS calls of one window_proc call fail for a reason of their own.
MaxFaults == 1

CMD_SHOW_LOGS == 4096
CMD_HIDE_LOGS == 4097
CMD_EXIT_APP == 4098
CMD_AHOY == 4099

Msg(m, lp) == [msg |-> m, lparam |-> lp]

\* The OS calls of show_context_menu, AppendMenuW once per item.
MenuCalls ==
    { "SetForegroundWindow", "CreatePopupMenu", "AppendMenuW_show", "AppendMenuW_hide",
      "AppendMenuW_separator", "AppendMenuW_ahoy", "AppendMenuW_exit", "EnableMenuItem",
      "GetCursorPos", "TrackPopupMenu", "DestroyMenu", "PostMessageW" }

MenuFaults == { f \in SUBSET MenuCalls : Cardinality(f) <= MaxFaults }


\* The process as window_proc sees it, with what one call of it has done so far.
Proc ==
    [ w |-> World, CONFIG |-> CONFIG, userdata |-> userdata, heap |-> heap,
      frees |-> frees, queue |-> queue, quit |-> quitPosted, win |-> win,
      tray |-> TRAY_STATE, shell |-> shell, exit |-> exitState,
      ret |-> 0, found |-> FALSE, errs |-> 0, silent |-> {}, tray_calls |-> << >>,
      destroy |-> FALSE, hadState |-> FALSE, menu |-> None ]

\* error!(...): one event at ERROR level
LogError(p, line) == [ p EXCEPT !.w = LogLine(@, line), !.errs = @ + 1 ]

\* a cell that takes every value it is given
configure_tray_console_overwriting(cell, config) ==
    [ cell |-> Some(config), ok |-> TRUE ]

\* CONFIG.set(config): Err when the cell is already set, which is left as it is
configure_tray_console(cell, config) ==
    IF cell = None THEN [ cell |-> Some(config), ok |-> TRUE ]
    ELSE [ cell |-> cell, ok |-> FALSE ]

\* store_state: the boxed state's address goes into GWLP_USERDATA
store_state(p, state) ==
    [ p EXCEPT !.userdata = 1, !.heap = "live",
               !.w.mode = state.mode,
               !.w.inherited = state.inherited_console_available ]

\* TrayConsoleState::new
TrayConsoleState_new(config) ==
    [ mode |-> InitialMode(config.inherited_console_available),
      inherited_console_available |-> config.inherited_console_available ]

\* drop_state that leaves the address in GWLP_USERDATA
drop_state_keeping_pointer(p) ==
    LET raw == p.userdata
    IN [ p EXCEPT !.heap = IF raw # 0 THEN "freed" ELSE @,
                  !.frees = IF raw # 0 THEN @ + 1 ELSE @ ]

\* drop_state: GWLP_USERDATA is set to 0 and the box it held, if any, is dropped
drop_state(p) ==
    LET raw == p.userdata
    IN [ p EXCEPT !.userdata = 0,
                  !.heap = IF raw # 0 THEN "freed" ELSE @,
                  !.frees = IF raw # 0 THEN @ + 1 ELSE @ ]

\* The items TrackPopupMenu can return: those appended and not greyed, or 0.
\* EnableMenuItem greys Show when !can_show_logs and Hide when !can_hide_logs.
Selectable(p, f) ==
    IF "TrackPopupMenu" \in f THEN {0}
    ELSE {0}
         \cup (IF "AppendMenuW_show" \notin f
                  /\ (can_show_logs(p.w) \/ "EnableMenuItem" \in f)
               THEN {CMD_SHOW_LOGS} ELSE {})
         \cup (IF "AppendMenuW_hide" \notin f
                  /\ (can_hide_logs(p.w) \/ "EnableMenuItem" \in f)
               THEN {CMD_HIDE_LOGS} ELSE {})
         \cup (IF "AppendMenuW_ahoy" \notin f THEN {CMD_AHOY} ELSE {})
         \cup (IF "AppendMenuW_exit" \notin f THEN {CMD_EXIT_APP} ELSE {})

\* An item of the menu as TrackPopupMenu shows it: absent when its AppendMenuW
\* failed, greyed when EnableMenuItem(.., MF_GRAYED) was called for it and took.
ItemState(appended, can, f) ==
    IF ~appended THEN "absent"
    ELSE IF ~can /\ "EnableMenuItem" \notin f THEN "grayed"
    ELSE "enabled"

\* The Show logs and Hide logs items of the menu built under the faults f.
MenuItems(p, f) ==
    [ show |-> ItemState("AppendMenuW_show" \notin f, can_show_logs(p.w), f),
      hide |-> ItemState("AppendMenuW_hide" \notin f, can_hide_logs(p.w), f) ]

\* The calls in f are made at all: nothing after a failed CreatePopupMenu,
\* PostMessageW only for Exit.
MenuChoice(p, f, sel) ==
    /\ sel \in Selectable(p, f)
    /\ "CreatePopupMenu" \in f => (f \subseteq {"CreatePopupMenu", "SetForegroundWindow"} /\ sel = 0)
    /\ "PostMessageW" \in f => sel = CMD_EXIT_APP

\* The calls of show_context_menu whose result is dropped without a log line.
Unlogged ==
    { "SetForegroundWindow", "EnableMenuItem", "GetCursorPos", "TrackPopupMenu", "PostMessageW" }

RECURSIVE LogTimes(_, _, _)
LogTimes(p, line, n) == IF n = 0 THEN p ELSE LogTimes(LogError(p, line), line, n - 1)

\* TrayConsoleState::show_context_menu: f are the OS calls that fail, sel is what
\* TrackPopupMenu returns, so / ho are the outcomes of the selected operation.
show_context_menu(p, f, sel, so, ho) ==
    LET p0 == [ p EXCEPT !.silent = @ \cup (f \cap Unlogged),
                         !.menu = IF { "CreatePopupMenu", "TrackPopupMenu" } \cap f = { }
                                  THEN Some(MenuItems(p, f)) ELSE None ]
        appends == f \cap { "AppendMenuW_show", "AppendMenuW_hide", "AppendMenuW_separator",
                            "AppendMenuW_ahoy", "AppendMenuW_exit" }
        p1 == LogTimes(p0, "Failed to populate context menu", Cardinality(appends))
        p2 == IF "DestroyMenu" \in f THEN LogError(p1, "Failed to destroy context menu") ELSE p1
        rs == show_logs(p2.w, so)
        rh == hide_logs(p2.w, ho)
    IN IF "CreatePopupMenu" \in f THEN LogError(p0, "Failed to create context menu")
       ELSE IF sel = CMD_SHOW_LOGS
       THEN (IF rs.ok THEN [ p2 EXCEPT !.w = rs.w ]
             ELSE LogError([ p2 EXCEPT !.w = rs.w ], "Failed to show logs"))
       ELSE IF sel = CMD_HIDE_LOGS
       THEN (IF rh.ok THEN [ p2 EXCEPT !.w = rh.w ]
             ELSE LogError([ p2 EXCEPT !.w = rh.w ], "Failed to hide logs"))
       ELSE IF sel = CMD_AHOY THEN [ p2 EXCEPT !.w = LogLine(@, "Ahoy!") ]
       ELSE IF sel = CMD_EXIT_APP
       THEN [ p2 EXCEPT !.exit = IF @ = "no" THEN "selected" ELSE @,
                        !.queue = IF "PostMessageW" \in f THEN @
                                  ELSE Append(@, Msg("WM_CLOSE", "0")) ]
       ELSE p2

\* window_proc, WM_DESTROY: delete the icon (error logged), drop the state,
\* PostQuitMessage.
wm_destroy(p, fault) ==
    LET r == delete_tray_icon(p.tray, p.shell, TrayHwnd, fault)
        p1 == [ p EXCEPT !.shell = r.shell, !.tray_calls = @ \o r.calls,
                         !.destroy = TRUE, !.hadState = p.userdata # 0 ]
        p2 == IF r.ok THEN p1 ELSE LogError(p1, "Failed to delete tray icon")
        p3 == drop_state(p2)
    IN [ p3 EXCEPT !.quit = TRUE, !.ret = 0 ]

\* DestroyWindow from inside the window's own procedure: the destroy message is
\* sent to the procedure, then the window and its posted messages are gone.
DestroyWindow(p, fault, dfault) ==
    IF p.win # "alive" \/ fault
    THEN [ p EXCEPT !.silent = @ \cup {"DestroyWindow"} ]
    ELSE [ wm_destroy(p, dfault) EXCEPT !.win = "destroyed", !.queue = << >> ]

\* The choices one window_proc call depends on: the OS calls that fail and what
\* the user picks in the menu.
WinShowOutcomes ==
    { o \in ShowOutcomes : o.hb = "none" /\ o.ctrl /\ o.ansi }

NoOutcome == [ f |-> {}, sel |-> 0, fault |-> FALSE, dfault |-> FALSE,
               so |-> CHOOSE o \in WinShowOutcomes : o.fail = "none",
               ho |-> [fail |-> "none"] ]

\* window_proc
window_proc(p, m, o) ==
    IF m.msg = "WM_CREATE"
    THEN (IF p.CONFIG # None
          THEN [ store_state(p, TrayConsoleState_new(p.CONFIG[1])) EXCEPT !.ret = 0 ]
          ELSE [ LogError(p, "Tray console configuration missing before window creation")
                   EXCEPT !.ret = -1 ])
    ELSE IF m.msg = "WM_USER_TRAY_CALLBACK"
    THEN (IF m.lparam \in {"WM_RBUTTONUP", "WM_CONTEXTMENU"}
          THEN (IF p.userdata = 0 THEN p
                ELSE [ show_context_menu(p, o.f, o.sel, o.so, o.ho) EXCEPT !.found = TRUE ])
          ELSE IF m.lparam = "WM_LBUTTONDBLCLK"
          THEN (IF p.userdata = 0 THEN p
                ELSE LET r == show_logs(p.w, o.so)
                         p1 == [ p EXCEPT !.w = r.w, !.found = TRUE ]
                     IN IF r.ok THEN p1
                        ELSE LogError(p1, "Failed to show logs via double-click"))
          ELSE p)
    ELSE IF m.msg = "WM_TASKBAR_CREATED"
    THEN LET r == re_add_tray_icon(p.tray, p.shell, o.fault)
             p1 == [ p EXCEPT !.shell = r.shell, !.tray_calls = @ \o r.calls ]
         IN IF r.ok THEN p1
            ELSE LogError(p1, "Failed to re-add tray icon after Explorer restart")
    ELSE IF m.msg = "WM_CLOSE"
    THEN [ DestroyWindow([ p EXCEPT !.exit = "closing" ], o.fault, o.dfault) EXCEPT !.ret = 0 ]
    ELSE IF m.msg = "WM_DESTROY"
    THEN wm_destroy(p, o.dfault)
    ELSE p

\* The state after one window_proc call for message m that ended as p.
SetProc(p, m) ==
    /\ mode' = p.w.mode
    /\ inherited_console_available' = p.w.inherited
    /\ log_buffer' = p.w.buf
    /\ attached' = p.w.attached
    /\ hOut' = p.w.hOut
    /\ hErr' = p.w.hErr
    /\ con' = p.w.con
    /\ userdata' = p.userdata
    /\ heap' = p.heap
    /\ frees' = p.frees
    /\ queue' = p.queue
    /\ quitPosted' = p.quit
    /\ win' = p.win
    /\ shell' = p.shell
    /\ exitState' = p.exit
    /\ wlast' = [ msg |-> m.msg, lparam |-> m.lparam, ret |-> p.ret, found |-> p.found,
                  con_calls |-> Len(p.w.calls), tray_calls |-> p.tray_calls,
                  errs |-> p.errs, silent |-> p.silent,
                  destroy |-> p.destroy, hadState |-> p.hadState, menu |-> p.menu ]
    /\ UNCHANGED << debug_enabled, last, rt, detachRun, TRAY_STATE, trayLast, lastGood,
                    CONFIG, cfgLast, sinkVars, extVars >>

\* How many OS calls outcome o makes fail for a reason of their own.
FaultCount(o) ==
    Cardinality(o.f) + (IF o.fault THEN 1 ELSE 0) + (IF o.dfault THEN 1 ELSE 0)
    + (IF o.so.fail # "none" THEN 1 ELSE 0) + (IF o.ho.fail # "none" THEN 1 ELSE 0)

\* The choices that matter for message m in state p: which OS calls fail, what
\* the user picks, and how the picked operation goes.
Choices(p, m) ==
    IF m.msg = "WM_USER_TRAY_CALLBACK" /\ p.userdata # 0
       /\ m.lparam \in {"WM_RBUTTONUP", "WM_CONTEXTMENU"}
    THEN UNION { UNION { { [ NoOutcome EXCEPT !.f = f, !.sel = sel, !.so = so, !.ho = ho ] :
                             so \in IF sel = CMD_SHOW_LOGS /\ can_show_logs(p.w)
                                    THEN WinShowOutcomes ELSE {NoOutcome.so},
                             ho \in IF sel = CMD_HIDE_LOGS /\ can_hide_logs(p.w)
                                    THEN HideOutcomes ELSE {NoOutcome.ho} } :
                         sel \in { x \in Selectable(p, f) : MenuChoice(p, f, x) } } :
                 f \in MenuFaults }
    ELSE IF m.msg = "WM_USER_TRAY_CALLBACK" /\ p.userdata # 0 /\ m.lparam = "WM_LBUTTONDBLCLK"
    THEN { [ NoOutcome EXCEPT !.so = so ] :
             so \in IF can_show_logs(p.w) THEN WinShowOutcomes ELSE {NoOutcome.so} }
    ELSE IF m.msg = "WM_TASKBAR_CREATED"
    THEN { [ NoOutcome EXCEPT !.fault = b ] : b \in IF p.tray = None THEN {FALSE} ELSE BOOLEAN }
    ELSE IF m.msg = "WM_CLOSE"
    THEN { [ NoOutcome EXCEPT !.fault = b, !.dfault = d ] : b \in BOOLEAN, d \in BOOLEAN }
    ELSE IF m.msg = "WM_DESTROY"
    THEN { [ NoOutcome EXCEPT !.dfault = d ] : d \in BOOLEAN }
    ELSE { NoOutcome }

Outcomes(p, m) == { o \in Choices(p, m) : FaultCount(o) <= MaxFaults }

\* configure_tray_console, called by main with is_inheriting_console() and by
\* whoever calls it again.
ConfigureTrayConsole ==
    /\ loop = "main"
    /\ \E b \in BOOLEAN :
        /\ CONFIG = None => b = (attached = "Parent")
        /\ LET r == configure_tray_console(CONFIG, [inherited_console_available |-> b]) IN
           /\ CONFIG' = r.cell
           /\ cfgLast' = [ ok |-> r.ok, before |-> CONFIG ]
    /\ UNCHANGED << win, userdata, heap, frees, queue, quitPosted, loop, retrieved,
                    dispatched, posts, creates, exitState, wlast,
                    consoleVars, sinkVars, trayVars, extVars >>

\* main: create_window_for_tray, once. CreateWindowExW sends the creation
\* message; when the procedure answers -1 the window is not created (and main
\* returns the error), and the OS may send the destroy message on the way out.
CreateWindow ==
    /\ win = "none"
    /\ loop = "main"
    /\ creates = 0
    /\ creates' = 1
    /\ \E sendDestroy \in BOOLEAN, d \in BOOLEAN :
        \E p1 \in { window_proc(Proc, Msg("WM_CREATE", "0"), NoOutcome) } :
            /\ (p1.ret = 0 => ~sendDestroy)
            /\ (~sendDestroy => ~d)
            /\ \E p2 \in { IF p1.ret = 0 THEN [ p1 EXCEPT !.win = "alive" ]
                            ELSE IF sendDestroy
                            THEN [ wm_destroy(p1, d) EXCEPT !.ret = -1, !.win = "failed" ]
                            ELSE [ p1 EXCEPT !.win = "failed" ] } :
                 SetProc(p2, Msg("WM_CREATE", "0"))
    /\ UNCHANGED << loop, retrieved, dispatched, posts >>

\* main: add_tray_icon(window, icon, tooltip)
MainAddTrayIcon ==
    /\ win = "alive"
    /\ loop = "main"
    /\ trayLast.op = "none"
    /\ \E fault \in BOOLEAN :
        LET r == add_tray_icon(TRAY_STATE, shell, TrayHwnd, TrayIcon, TrayTooltip, fault) IN
        /\ TraySet(r, "add", TrayHwnd)
        /\ lastGood' = IF r.ok THEN Some(r.calls[1].nid) ELSE lastGood
    /\ UNCHANGED << consoleVars, sinkVars, windowVars, extVars >>

\* run_message_loop(None) is entered: by main once add_tray_icon has succeeded
\* (a failed one makes main return) and it has logged that, or by a host that
\* adds no icon.
EnterLoop ==
    /\ loop = "main"
    /\ win = "alive"
    /\ trayLast.ok
    /\ loop' = "get"
    /\ LET w1 == IF trayLast.op = "add"
                 THEN LogLine(World, "Tray console demo initialized") ELSE World
           w2 == LogDebug(w1, "Starting message loop")
       IN /\ log_buffer' = w2.buf
          /\ con' = w2.con
    /\ UNCHANGED << CONFIG, cfgLast, win, userdata, heap, frees, queue, quitPosted,
                    retrieved, dispatched, posts, creates, exitState, wlast,
                    mode, inherited_console_available, attached, hOut, hErr,
                    debug_enabled, last, rt, detachRun,
                    sinkVars, trayVars, extVars >>

\* What the shell and other senders post to the window.
Posted ==
    { Msg("WM_USER_TRAY_CALLBACK", lp) :
        lp \in {"WM_CONTEXTMENU", "WM_LBUTTONDBLCLK", "WM_MOUSEMOVE"} }
    \cup { Msg("WM_TASKBAR_CREATED", "0"), Msg("WM_CLOSE", "0"), Msg("WM_DESTROY", "0"),
           Msg("WM_NULL", "0") }

\* A message is posted to the window; the taskbar-created broadcast may follow
\* an Explorer restart, which has emptied the notification area. (A message
\* posted before the loop is entered waits in the queue as one posted right
\* after, so posting starts with the loop.)
Post ==
    /\ win = "alive"
    /\ loop # "main"
    /\ posts < MaxPosts
    /\ \E m \in Posted, restart \in BOOLEAN :
        /\ restart => m.msg = "WM_TASKBAR_CREATED"
        /\ queue' = Append(queue, m)
        /\ shell' = IF restart THEN [h \in Hwnds |-> None] ELSE shell
    /\ posts' = posts + 1
    /\ UNCHANGED << CONFIG, cfgLast, win, userdata, heap, frees, quitPosted, loop,
                    retrieved, dispatched, creates, exitState, wlast,
                    TRAY_STATE, trayLast, lastGood, consoleVars, sinkVars, extVars >>

\* GetMessageW(&mut msg, None, 0, 0): the oldest posted message; WM_QUIT (0) once
\* the queue is empty and a quit has been posted; blocks otherwise.
GetMessageW(q, quit) ==
    IF Len(q) > 0 THEN [ ret |-> 1, msg |-> << Head(q) >>, queue |-> Tail(q) ]
    ELSE IF quit THEN [ ret |-> 0, msg |-> << Msg("WM_QUIT", "0") >>, queue |-> q ]
    ELSE [ ret |-> 2, msg |-> << >>, queue |-> q ]

\* run_message_loop: while GetMessageW(..).into()
LoopGet ==
    /\ loop = "get"
    /\ LET g == GetMessageW(queue, quitPosted) IN
       /\ g.ret # 2
       /\ queue' = g.queue
       /\ retrieved' = IF g.ret # 0 THEN retrieved \o g.msg ELSE retrieved
       /\ loop' = IF g.ret # 0 THEN "dispatch" ELSE "returned"
    /\ UNCHANGED << CONFIG, cfgLast, win, userdata, heap, frees, quitPosted,
                    dispatched, posts, creates, exitState, wlast,
                    consoleVars, sinkVars, trayVars, extVars >>

\* run_message_loop: TranslateMessage, DispatchMessageW, which calls window_proc
LoopDispatch ==
    /\ loop = "dispatch"
    /\ LET m == retrieved[Len(retrieved)] IN
       /\ \E o \in Outcomes(Proc, m) :
            \E p \in { window_proc(Proc, m, o) } : SetProc(p, m)
       /\ dispatched' = Append(dispatched, m)
    /\ loop' = "get"
    /\ UNCHANGED << retrieved, posts, creates >>

InitWindowIdle ==
    /\ CONFIG = None
    /\ cfgLast = [ ok |-> TRUE, before |-> None ]
    /\ win = "none"
    /\ userdata = 0
    /\ heap = "none"
    /\ frees = 0
    /\ queue = << >>
    /\ quitPosted = FALSE
    /\ loop = "main"
    /\ retrieved = << >>
    /\ dispatched = << >>
    /\ posts = 0
    /\ creates = 0
    /\ exitState = "no"
    /\ wlast = [ msg |-> "none", lparam |-> "0", ret |-> 0, found |-> FALSE,
                 con_calls |-> 0, tray_calls |-> << >>, errs |-> 0, silent |-> {},
                 destroy |-> FALSE, hadState |-> FALSE, menu |-> None ]

\* main after hide_default_console_or_attach_ctrl_handler, before it configures
\* the tray console: the parent's console when one was inherited, none otherwise.
InitWindowConsole ==
    \E pre \in {"Parent", "Default"} :
        LET w == Startup(pre, FALSE, FALSE) IN
        /\ mode = "Detached"
        /\ inherited_console_available = FALSE
        /\ log_buffer = w.buf
        /\ attached = w.attached
        /\ hOut = w.hOut
        /\ hErr = w.hErr
        /\ con = w.con
        /\ debug_enabled = FALSE
        /\ last = NoOp
        /\ rt = "start"
        /\ detachRun = 0

NextWindow ==
    \/ ConfigureTrayConsole
    \/ CreateWindow
    \/ MainAddTrayIcon
    \/ EnterLoop
    \/ Post
    \/ LoopGet
    \/ LoopDispatch

\* ---------------------------------------------------------------- shell context menu

\* How many items a menu holds at most.
MaxItems == 2

MFT_SEPARATOR == 2048
BufLen == 256
MaxVerbId == 32767

\* x & flag = flag, for a flag of one bit
HasFlag(x, flag) == (x \div flag) % 2 = 1

\* The menu items the shell's handlers insert, as GetMenuItemInfoW and
\* GetCommandString report them: whether the item can be read, its type flags,
\* its text in UTF-16 code units, its id, the ANSI and the Unicode verb (None
\* when the handler has none), and its submenu (None for an invalid handle).
\* 256 is the owner-drawn type flag, which comes without a text.
ReadableLeaf(fType, text, wID, verbA, verbW) ==
    [ ok |-> TRUE, fType |-> fType, text |-> text, wID |-> wID,
      verbA |-> verbA, verbW |-> verbW, hSubMenu |-> None ]

Leafs ==
    { [ ReadableLeaf(0, << >>, 0, None, None) EXCEPT !.ok = FALSE ],
      ReadableLeaf(MFT_SEPARATOR, << >>, 0, None, None),
      ReadableLeaf(MFT_SEPARATOR + 256, << >>, 0, None, None),
      ReadableLeaf(256, << >>, 1, None, None) }
    \cup { ReadableLeaf(0, text, wID, v[1], v[2]) :
             text \in { << >>, << 67 >>, << 55357 >> },
             wID \in {0, 1, MaxVerbId + 1},
             v \in { << None, None >>, << Some(<< 99, 0 >>), None >>,
                     << None, Some(<< 99 >>) >> } }

SeqsUpTo(S, n) == UNION { [1..k -> S] : k \in 0..n }

\* Items one level deep: a leaf, or a readable item that opens a submenu of
\* at most one leaf.
Items ==
    Leafs \cup
    { [ l EXCEPT !.hSubMenu = Some(m) ] :
        l \in { ReadableLeaf(0, << 67 >>, 1, None, None), ReadableLeaf(0, << >>, 0, None, None) },
        m \in SeqsUpTo(Leafs, 1) }

Menus == SeqsUpTo(Items, MaxItems)

\* String::from_utf16_lossy: a surrogate pair is one character, an unpaired
\* surrogate becomes U+FFFD.
RECURSIVE from_utf16_lossy(_)
from_utf16_lossy(u) ==
    IF u = << >> THEN << >>
    ELSE IF u[1] \in 55296..56319 /\ Len(u) >= 2 /\ u[2] \in 56320..57343
    THEN << 65536 + (u[1] - 55296) * 1024 + (u[2] - 56320) >> \o from_utf16_lossy(SubSeq(u, 3, Len(u)))
    ELSE IF u[1] \in 55296..57343 THEN << 65533 >> \o from_utf16_lossy(Tail(u))
    ELSE << u[1] >> \o from_utf16_lossy(Tail(u))

\* buffer.iter().position(|&x| x == 0).unwrap_or(0), for a zeroed buffer of
\* BufLen units that received s
VerbLen(s) ==
    IF \E i \in 1..Len(s) : s[i] = 0
    THEN (CHOOSE i \in 1..Len(s) : s[i] = 0 /\ \A j \in 1..(i - 1) : s[j] # 0) - 1
    ELSE IF Len(s) < BufLen THEN Len(s) ELSE 0

\* get_verb: no verb for an id outside 1..=0x7FFF; the ANSI verb when
\* GetCommandString gives one, else the Unicode verb, else the empty string.
get_verb(info) ==
    IF ~(info.wID \in 1..MaxVerbId) THEN << >>
    ELSE IF info.verbA # None THEN SubSeq(info.verbA[1], 1, VerbLen(info.verbA[1]))
    ELSE IF info.verbW # None
    THEN from_utf16_lossy(SubSeq(info.verbW[1], 1, VerbLen(info.verbW[1])))
    ELSE << >>

\* "----------------"
SeparatorLabel == [i \in 1..16 |-> 45]

\* walk_menu: the items at positions 0, 1, .. in turn, skipping those that
\* GetMenuItemInfoW cannot read; the text is cut to the buffer.
RECURSIVE walk_menu(_)
walk_menu(menu) ==
    IF menu = << >> THEN << >>
    ELSE LET info == Head(menu)
             cch == IF Len(info.text) < BufLen THEN Len(info.text) ELSE BufLen - 1
         IN (IF ~info.ok THEN << >>
             ELSE IF HasFlag(info.fType, MFT_SEPARATOR)
             THEN << [ id |-> 0, label |-> SeparatorLabel, verb |-> << >>,
                       sub_items |-> << >>, is_separator |-> TRUE ] >>
             ELSE << [ id |-> info.wID,
                       label |-> from_utf16_lossy(SubSeq(info.text, 1, cch)),
                       verb |-> get_verb(info),
                       sub_items |-> IF info.hSubMenu # None
                                     THEN walk_menu(info.hSubMenu[1]) ELSE << >>,
                       is_separator |-> FALSE ] >>)
            \o walk_menu(Tail(menu))

\* The steps of get_context_menu_entries that can fail ("none": none does).
QuerySteps ==
    { "none", "unc_canonicalize", "ComGuard", "SHParseDisplayName", "null_pidl",
      "SHBindToParent", "GetUIObjectOf", "CreatePopupMenu", "QueryContextMenu",
      "DestroyMenu" }

\* get_context_menu_entries: the entries of the populated menu, or the error of
\* the step that failed.
get_context_menu_entries(menu, fail) ==
    IF fail # "none" THEN [ ok |-> FALSE, err |-> fail, entries |-> << >> ]
    ELSE [ ok |-> TRUE, err |-> "none", entries |-> walk_menu(menu) ]

\* One query of the context menu of a path.
GetContextMenuEntries ==
    /\ entries = None
    /\ \E fail \in QuerySteps :
         entries' = Some(get_context_menu_entries(hmenu, fail))
    /\ UNCHANGED << hmenu, micVars, cliVars, moreVars, consoleVars, sinkVars, trayVars, windowVars >>

NextMenu == GetContextMenuEntries

\* The menu the shell's handlers have populated for the path.
InitMenuQuery ==
    /\ hmenu \in Menus
    /\ entries = None

\* No menu has been queried.
InitMenuIdle ==
    /\ hmenu = << >>
    /\ entries = None

\* ---------------------------------------------------------------- microphone service

\* The device ids the service is called with.
Devices == {"mic1", "mic2"}

\* Calls of the service made in one run.
MaxCalls == 4

\* Recording threads spawned in one run.
MaxThreads == 2

\* The most bytes of audio a thread records (0: none).
MaxAudio == 1

NoCall ==
    [ op |-> "none", device |-> "mic1", result |-> "none", before |-> None, n |-> 0,
      sid |-> 0,
      prev |-> [ op |-> "none", device |-> "mic1", result |-> "none" ] ]

\* MicrophoneServiceImpl::new: no sessions
InitMicIdle ==
    /\ sessions = [d \in Devices |-> None]
    /\ threads = << >>
    /\ micLast = NoCall
    /\ micCalls = 0

\* The session start_recording inserts; t is the handle of the thread the call
\* has spawned, and stands for the time of the insertion as well.
NewSession(t) ==
    [ started_at |-> t, is_recording |-> TRUE, audio |-> 0,
      recording_thread |-> Some(t), stop_tx |-> TRUE ]

\* What a call leaves in micLast: n is the number of calls made up to it, sid
\* the session it acted on (0: none). t is the thread of a call that returns in
\* a later step than it began (and has been counted), else 0.
Called(op, d, result, t) ==
    [ op |-> op, device |-> d, result |-> result, before |-> sessions[d],
      n |-> IF t # 0 THEN micCalls ELSE micCalls + 1,
      sid |-> IF t # 0 THEN t ELSE IF sessions[d] = None THEN 0 ELSE sessions[d][1].started_at,
      prev |-> [ op |-> micLast.op, device |-> micLast.device, result |-> micLast.result ] ]

\* state.sessions.contains_key(&device_id)
contains_key(sess, d) == sess[d] # None

\* The thread std::thread::spawn starts, with the audio it has captured, the
\* call that spawned it (call) and the stop_recording call that holds its
\* handle (join).
NewThread(d) ==
    [ dev |-> d, st |-> "starting", err |-> FALSE, audio |-> 0,
      call |-> "spawned", join |-> "none" ]

\* The thread is still running its closure.
Running(th) == th.st \in { "starting", "capturing", "failed" }

\* start_recording, first lock scope: refuse a device that has a session, else
\* spawn the recording thread.
StartRecording(d) ==
    /\ micCalls < MaxCalls
    /\ micCalls' = micCalls + 1
    /\ IF contains_key(sessions, d)
       THEN /\ micLast' = Called("start", d, "Already recording", 0)
            /\ UNCHANGED threads
       ELSE /\ Len(threads) < MaxThreads
            /\ threads' = Append(threads, NewThread(d))
            /\ UNCHANGED micLast
    /\ UNCHANGED << sessions, menuVars, cliVars, moreVars, consoleVars, sinkVars, trayVars, windowVars >>

\* start_recording, second lock scope: insert the session
StartInsert(t) ==
    /\ t \in DOMAIN threads
    /\ threads[t].call = "spawned"
    /\ sessions' = [sessions EXCEPT ![threads[t].dev] = Some(NewSession(t))]
    /\ threads' = [threads EXCEPT ![t].call = "inserted"]
    /\ UNCHANGED << micLast, micCalls, menuVars, cliVars, moreVars,
                    consoleVars, sinkVars, trayVars, windowVars >>

\* start_recording, error_rx.recv_timeout: a startup error removes the session
\* and is returned; a timeout or a disconnected channel is success.
StartReturn(t) ==
    /\ t \in DOMAIN threads
    /\ threads[t].call = "inserted"
    /\ threads' = [threads EXCEPT ![t].call = "returned"]
    /\ IF threads[t].err
       THEN /\ sessions' = [sessions EXCEPT ![threads[t].dev] = None]
            /\ micLast' = Called("start", threads[t].dev, "Err", t)
       ELSE /\ micLast' = Called("start", threads[t].dev, "Ok", t)
            /\ UNCHANGED sessions
    /\ UNCHANGED << micCalls, menuVars, cliVars, moreVars, consoleVars, sinkVars, trayVars, windowVars >>

\* The recording thread, run_recording_thread up to the capture loop: it gets
\* there, or fails, sends the error and is left to remove the session.
ThreadSetup(t) ==
    /\ t \in DOMAIN threads
    /\ threads[t].st = "starting"
    /\ \E ok \in BOOLEAN :
         threads' = [threads EXCEPT ![t].st = IF ok THEN "capturing" ELSE "failed",
                                    ![t].err = ~ok]
    /\ UNCHANGED << sessions, micLast, micCalls, menuVars, cliVars, moreVars,
                    consoleVars, sinkVars, trayVars, windowVars >>

\* The failed recording thread: state.sessions.remove(&device_id)
ThreadCleanup(t) ==
    /\ t \in DOMAIN threads
    /\ threads[t].st = "failed"
    /\ threads' = [threads EXCEPT ![t].st = "ended"]
    /\ sessions' = [sessions EXCEPT ![threads[t].dev] = None]
    /\ UNCHANGED << micLast, micCalls, menuVars, cliVars, moreVars,
                    consoleVars, sinkVars, trayVars, windowVars >>

\* The thread's closure after run_recording_thread returned Ok: the audio goes
\* into the device's session, if there is one, which is then not recording.
thread_finished(sess, d, a) ==
    IF sess[d] = None THEN sess
    ELSE [sess EXCEPT ![d] = Some([ @[1] EXCEPT !.audio = a, !.is_recording = FALSE ])]

\* The capture loop ends: the stop signal was received or the stop channel was
\* dropped, or a capture call failed; the closure then stores the audio. Or the
\* thread panics and stores nothing.
ThreadCaptureEnds(t) ==
    /\ t \in DOMAIN threads
    /\ threads[t].st = "capturing"
    /\ \/ \E a \in 0..MaxAudio :
             /\ sessions' = thread_finished(sessions, threads[t].dev, a)
             /\ threads' = [threads EXCEPT ![t].st = "ended", ![t].audio = a]
       \/ /\ threads' = [threads EXCEPT ![t].st = "panicked"]
          /\ UNCHANGED sessions
    /\ UNCHANGED << micLast, micCalls, menuVars, cliVars, moreVars,
                    consoleVars, sinkVars, trayVars, windowVars >>

\* stop_recording, its lock scope: refuse a device without a session or with a
\* session that is not recording, else take the sender and the handle out of
\* the session. With no handle to join the call returns Ok at once.
StopRecording(d) ==
    /\ micCalls < MaxCalls
    /\ micCalls' = micCalls + 1
    /\ IF sessions[d] = None
       THEN /\ micLast' = Called("stop", d, "No recording session", 0)
            /\ UNCHANGED << sessions, threads >>
       ELSE IF ~sessions[d][1].is_recording
       THEN /\ micLast' = Called("stop", d, "Recording already stopped", 0)
            /\ UNCHANGED << sessions, threads >>
       ELSE LET thread_handle == sessions[d][1].recording_thread IN
            /\ sessions' = [sessions EXCEPT ![d] =
                              Some([ @[1] EXCEPT !.recording_thread = None, !.stop_tx = FALSE ])]
            /\ IF thread_handle = None
               THEN /\ micLast' = Called("stop", d, "Ok", 0)
                    /\ UNCHANGED threads
               ELSE /\ threads' = [threads EXCEPT ![thread_handle[1]].join = "joining"]
                    /\ UNCHANGED micLast
    /\ UNCHANGED << menuVars, cliVars, moreVars, consoleVars, sinkVars, trayVars, windowVars >>

\* stop_recording, handle.join(): it returns when the thread has terminated, Ok
\* unless the thread panicked.
StopJoin(t) ==
    /\ t \in DOMAIN threads
    /\ threads[t].join = "joining"
    /\ ~Running(threads[t])
    /\ threads' = [threads EXCEPT ![t].join = "joined"]
    /\ micLast' = Called("stop", threads[t].dev,
                         IF threads[t].st = "panicked" THEN "Recording thread panicked" ELSE "Ok",
                         t)
    /\ UNCHANGED << sessions, micCalls, menuVars, cliVars, moreVars,
                    consoleVars, sinkVars, trayVars, windowVars >>

\* drain_to_wav that keeps a session without audio
drain_to_wav_keeping_empty(sess, d, shm) ==
    IF sess[d] # None /\ sess[d][1].is_recording
    THEN [ sessions |-> sess, result |-> "Recording still in progress" ]
    ELSE IF sess[d] = None
    THEN [ sessions |-> sess, result |-> "No recording data" ]
    ELSE IF sess[d][1].audio = 0
    THEN [ sessions |-> sess, result |-> "No audio data recorded" ]
    ELSE [ sessions |-> [sess EXCEPT ![d] = None],
           result |-> IF shm = "ok" THEN "Ok" ELSE shm ]

\* drain_to_wav: under one lock, refuse a session that is recording, else
\* remove the device's session; then report no session, or no audio, or build
\* the WAV in shared memory (shm: "ok", or the step of that which fails).
drain_to_wav(sess, d, shm) ==
    IF sess[d] # None /\ sess[d][1].is_recording
    THEN [ sessions |-> sess, result |-> "Recording still in progress" ]
    ELSE LET session_data == sess[d]
             removed == [sess EXCEPT ![d] = None]
         IN IF session_data = None
            THEN [ sessions |-> removed, result |-> "No recording data" ]
            ELSE IF session_data[1].audio = 0
            THEN [ sessions |-> removed, result |-> "No audio data recorded" ]
            ELSE [ sessions |-> removed, result |-> IF shm = "ok" THEN "Ok" ELSE shm ]

ShmOutcomes == { "ok", "Failed to allocate ShmBytes", "Failed to access ShmBytes slice" }

DrainToWav(d) ==
    /\ micCalls < MaxCalls
    /\ micCalls' = micCalls + 1
    /\ \E shm \in ShmOutcomes :
         LET r == drain_to_wav(sessions, d, shm) IN
         /\ sessions' = r.sessions
         /\ micLast' = Called("drain", d, r.result, 0)
    /\ UNCHANGED << threads, menuVars, cliVars, moreVars, consoleVars, sinkVars, trayVars, windowVars >>

NextMic ==
    \/ \E d \in Devices :
          \/ StartRecording(d)
          \/ StopRecording(d)
          \/ DrainToWav(d)
    \/ \E t \in 1..MaxThreads :
          \/ StartInsert(t)
          \/ StartReturn(t)
          \/ ThreadSetup(t)
          \/ ThreadCleanup(t)
          \/ ThreadCaptureEnds(t)
          \/ StopJoin(t)

\* ---------------------------------------------------------------- command line

\* How many paths a command is given at most.
MaxPaths == 2

\* What Arbitrary generates for a String or a PathBuf: the empty string, a plain
\* word, a word that is also a flag, a word that is also a subcommand.
Strings == { "", "out.json", "--debug", "show" }

\* What Arbitrary generates for an isize, and isize::to_string of it.
Isizes == { -5, 0, 7 }

to_string(n) == CASE n = -5 -> "-5" [] n = 0 -> "0" [] n = 7 -> "7"

\* str::parse::<isize>, None for what is no number
parse_isize(t) ==
    CASE t = "-5" -> Some(-5) [] t = "0" -> Some(0) [] t = "7" -> Some(7) [] OTHER -> None

NonEmptyPaths == Strings \ { "" }

\* The leaf commands with their arguments, as the Arbitrary impls (derived, or
\* written for ShowArgs and EntryListArgs) generate them.
Commands ==
    { [ cmd |-> << "clipboard", "show" >> ] }
    \cup { [ cmd |-> << "clipboard", "set" >>, value |-> v ] : v \in Strings }
    \cup { [ cmd |-> << "explorer", "context-menu", "entry", "list" >>, for |-> f ] :
             f \in NonEmptyPaths }
    \cup { [ cmd |-> << "explorer", "show" >>, paths |-> ps ] :
             ps \in SeqsUpTo(NonEmptyPaths, MaxPaths) \ { << >> } }
    \cup { [ cmd |-> << "icon", "browse" >>, paths |-> ps ] : ps \in SeqsUpTo(Strings, MaxPaths) }
    \cup { [ cmd |-> << "mic", "list" >>, output_format |-> f ] :
             f \in { "auto", "text", "facet", "json" } }
    \cup { [ cmd |-> << "mic", "record" >>, id |-> i, duration |-> d, output_path |-> o ] :
             i \in Strings, d \in Strings, o \in Strings }
    \cup { [ cmd |-> << "window", "list" >>, all |-> a, output |-> o ] :
             a \in BOOLEAN, o \in { "text", "json" } }
    \cup { [ cmd |-> << "window", "focus" >>, hwnd |-> h ] : h \in Isizes }
    \cup { [ cmd |-> << "window", "pick" >>, all |-> a, many |-> m, output |-> o ] :
             a \in BOOLEAN, m \in BOOLEAN, o \in { "text", "json" } }

\* Cli::arbitrary
Clis ==
    { [ global_args |-> [ debug |-> d, json |-> j ], command |-> c ] :
        d \in BOOLEAN, j \in { None } \cup { Some(x) : x \in Strings }, c \in Commands }

\* ToArgs for GlobalArgs
GlobalArgs_to_args(g) ==
    (IF g.debug THEN << "--debug" >> ELSE << >>)
    \o (IF g.json = None THEN << >>
        ELSE IF g.json[1] = "" THEN << "--json" >>
        ELSE << "--json", g.json[1] >>)

\* ToArgs for CliCommand and the argument structs below it: the subcommand
\* names, then the leaf's arguments.
CliCommand_to_args(c) ==
    c.cmd \o
    (IF c.cmd = << "clipboard", "show" >> THEN << >>
     ELSE IF c.cmd = << "clipboard", "set" >> THEN << c.value >>
     ELSE IF c.cmd = << "explorer", "context-menu", "entry", "list" >> THEN << "--for", c.for >>
     ELSE IF c.cmd = << "explorer", "show" >> THEN c.paths
     ELSE IF c.cmd = << "icon", "browse" >> THEN c.paths
     ELSE IF c.cmd = << "mic", "list" >> THEN << >>
     ELSE IF c.cmd = << "mic", "record" >>
     THEN << "--id", c.id, "--duration", c.duration, "--output-path", c.output_path >>
     ELSE IF c.cmd = << "window", "list" >>
     THEN (IF c.all THEN << "--all" >> ELSE << >>) \o << "--output", c.output >>
     ELSE IF c.cmd = << "window", "focus" >> THEN << to_string(c.hwnd) >>
     ELSE (IF c.all THEN << "--all" >> ELSE << >>)
          \o (IF c.many THEN << "--many" >> ELSE << >>)
          \o << "--output", c.output >>)

\* ToArgs for Cli
to_args(c) == GlobalArgs_to_args(c.global_args) \o CliCommand_to_args(c.command)

\* The subcommand names the derived parser accepts below a command.
Subcommands(path) ==
    CASE path = << >> -> { "clipboard", "explorer", "icon", "mic", "window" }
      [] path = << "clipboard" >> -> { "show", "set" }
      [] path = << "explorer" >> -> { "context-menu", "show" }
      [] path = << "explorer", "context-menu" >> -> { "entry" }
      [] path = << "explorer", "context-menu", "entry" >> -> { "list" }
      [] path = << "icon" >> -> { "browse" }
      [] path = << "mic" >> -> { "list", "record" }
      [] path = << "window" >> -> { "list", "focus", "pick" }
      [] OTHER -> { }

\* The long options of a command that take one value.
ValueOptions(path) ==
    CASE path = << "explorer", "context-menu", "entry", "list" >> -> { "--for" }
      [] path = << "mic", "list" >> -> { "--output-format" }
      [] path = << "mic", "record" >> -> { "--id", "--duration", "--output-path" }
      [] path \in { << "window", "list" >>, << "window", "pick" >> } -> { "--output" }
      [] OTHER -> { }

\* The long flags of a command.
Flags(path) ==
    CASE path = << "window", "list" >> -> { "--all" }
      [] path = << "window", "pick" >> -> { "--all", "--many" }
      [] OTHER -> { }

\* The positional argument of a command, "" when it has none.
Positional(path) ==
    CASE path = << "clipboard", "set" >> -> "value"
      [] path \in { << "explorer", "show" >>, << "icon", "browse" >> } -> "paths"
      [] path = << "window", "focus" >> -> "hwnd"
      [] OTHER -> ""

\* The field an option or flag fills.
Field(opt) ==
    CASE opt = "--for" -> "for"
      [] opt = "--output-format" -> "output_format"
      [] opt = "--id" -> "id"
      [] opt = "--duration" -> "duration"
      [] opt = "--output-path" -> "output_path"
      [] opt = "--output" -> "output"
      [] opt = "--all" -> "all"
      [] opt = "--many" -> "many"

\* A token that starts with a hyphen: the parser reads it as an option, never
\* as a value (no argument allows hyphen values or negative numbers).
Dashed(t) ==
    t \in { "--debug", "--json", "--for", "--output-format", "--id", "--duration",
            "--output-path", "--output", "--all", "--many", "-5" }

\* The value parser of a field: a PathBuf is not empty, an isize is a number,
\* a ValueEnum is one of its names, a String is anything.
Valid(k, v) ==
    CASE k \in { "for", "paths", "output_path" } -> v # ""
      [] k = "hwnd" -> parse_isize(v) # None
      [] k = "output" -> v \in { "text", "json" }
      [] k = "output_format" -> v \in { "auto", "text", "facet", "json" }
      [] OTHER -> TRUE

\* Nothing has been parsed.
NoFields ==
    [ value |-> None, for |-> None, paths |-> << >>, output_format |-> None, id |-> None,
      duration |-> None, output_path |-> None, all |-> FALSE, many |-> FALSE,
      output |-> None, hwnd |-> None ]

ParseStart ==
    [ debug |-> FALSE, json |-> None, path |-> << >>, f |-> NoFields, pend |-> "", ok |-> TRUE ]

Fail(st) == [ st EXCEPT !.ok = FALSE ]

\* One value for field k: validated, appended to a list, an error when a
\* single-valued argument gets a second value.
Store(st, k, v) ==
    IF ~Valid(k, v) THEN Fail(st)
    ELSE IF k = "paths" THEN [ st EXCEPT !.f.paths = Append(@, v) ]
    ELSE IF st.f[k] # None THEN Fail(st)
    ELSE IF k = "hwnd" THEN [ st EXCEPT !.f.hwnd = parse_isize(v) ]
    ELSE [ st EXCEPT !.f[k] = Some(v) ]

\* The option waiting for its value gets none: --json (num_args = 0..=1) takes
\* its default_missing_value, any other option is an error.
ResolvePending(st) ==
    IF st.pend = "" THEN st
    ELSE IF st.pend = "--json" THEN [ st EXCEPT !.json = Some(""), !.pend = "" ]
    ELSE Fail(st)

\* One token of the command line.
ParseToken(st, t) ==
    IF ~st.ok THEN st
    ELSE IF st.pend # "" /\ ~Dashed(t)
    THEN IF st.pend = "--json"
         THEN [ st EXCEPT !.json = Some(t), !.pend = "" ]
         ELSE Store([ st EXCEPT !.pend = "" ], Field(st.pend), t)
    ELSE LET s1 == ResolvePending(st) IN
         IF ~s1.ok THEN s1
         ELSE IF t \in Subcommands(s1.path) THEN [ s1 EXCEPT !.path = Append(@, t) ]
         ELSE IF t = "--debug"
         THEN IF s1.debug THEN Fail(s1) ELSE [ s1 EXCEPT !.debug = TRUE ]
         ELSE IF t = "--json"
         THEN IF s1.json # None THEN Fail(s1) ELSE [ s1 EXCEPT !.pend = t ]
         ELSE IF t \in ValueOptions(s1.path)
         THEN IF s1.f[Field(t)] # None THEN Fail(s1) ELSE [ s1 EXCEPT !.pend = t ]
         ELSE IF t \in Flags(s1.path)
         THEN IF s1.f[Field(t)] THEN Fail(s1) ELSE [ s1 EXCEPT !.f[Field(t)] = TRUE ]
         ELSE IF Dashed(t) \/ Positional(s1.path) = "" THEN Fail(s1)
         ELSE Store(s1, Positional(s1.path), t)

RECURSIVE ParseTokens(_, _)
ParseTokens(st, ts) ==
    IF ts = << >> THEN st ELSE ParseTokens(ParseToken(st, Head(ts)), Tail(ts))

\* The value of an option that has a default.
OrDefault(o, d) == IF o = None THEN d ELSE o[1]

\* The required arguments of a command are there.
RequiredGiven(path, f) ==
    CASE path = << "clipboard", "set" >> -> f.value # None
      [] path = << "explorer", "context-menu", "entry", "list" >> -> f.for # None
      [] path = << "explorer", "show" >> -> f.paths # << >>
      [] path = << "mic", "record" >> ->
            f.id # None /\ f.duration # None /\ f.output_path # None
      [] path = << "window", "focus" >> -> f.hwnd # None
      [] OTHER -> TRUE

\* FromArgMatches: the argument struct of a command.
CommandOf(path, f) ==
    CASE path = << "clipboard", "show" >> -> [ cmd |-> path ]
      [] path = << "clipboard", "set" >> -> [ cmd |-> path, value |-> f.value[1] ]
      [] path = << "explorer", "context-menu", "entry", "list" >> ->
            [ cmd |-> path, for |-> f.for[1] ]
      [] path \in { << "explorer", "show" >>, << "icon", "browse" >> } ->
            [ cmd |-> path, paths |-> f.paths ]
      [] path = << "mic", "list" >> ->
            [ cmd |-> path, output_format |-> OrDefault(f.output_format, "auto") ]
      [] path = << "mic", "record" >> ->
            [ cmd |-> path, id |-> f.id[1], duration |-> f.duration[1],
              output_path |-> f.output_path[1] ]
      [] path = << "window", "list" >> ->
            [ cmd |-> path, all |-> f.all, output |-> OrDefault(f.output, "text") ]
      [] path = << "window", "focus" >> -> [ cmd |-> path, hwnd |-> f.hwnd[1] ]
      [] path = << "window", "pick" >> ->
            [ cmd |-> path, all |-> f.all, many |-> f.many,
              output |-> OrDefault(f.output, "text") ]

\* Cli::try_parse_from: the first word is the program name; a subcommand is
\* required at every level.
try_parse_from(argv) ==
    LET st == ResolvePending(ParseTokens(ParseStart, Tail(argv))) IN
    IF st.ok /\ st.path # << >> /\ Subcommands(st.path) = { } /\ RequiredGiven(st.path, st.f)
    THEN [ ok |-> TRUE,
           cli |-> [ global_args |-> [ debug |-> st.debug, json |-> st.json ],
                     command |-> CommandOf(st.path, st.f) ] ]
    ELSE [ ok |-> FALSE ]

\* fuzz_cli_args_roundtrip, first half: the generated Cli is turned into a
\* command line behind the program name.
BuildArgs ==
    /\ cli # None
    /\ args = None
    /\ args' = Some(<< "test-exe" >> \o to_args(cli[1]))
    /\ UNCHANGED << cli, parsed, menuVars, micVars, moreVars, consoleVars, sinkVars, trayVars,
                    windowVars >>

\* fuzz_cli_args_roundtrip, second half: the command line is parsed.
ParseArgs ==
    /\ args # None
    /\ parsed = None
    /\ parsed' = Some(try_parse_from(args[1]))
    /\ UNCHANGED << cli, args, menuVars, micVars, moreVars, consoleVars, sinkVars, trayVars,
                    windowVars >>

NextCli ==
    \/ BuildArgs
    \/ ParseArgs

\* A Cli has been generated.
InitCliGenerated ==
    /\ cli \in { Some(c) : c \in Clis }
    /\ args = None
    /\ parsed = None

\* No command line has been generated.
InitCliIdle ==
    /\ cli = None
    /\ args = None
    /\ parsed = None

\* ---------------------------------------------------------------- heartbeat logger

\* spawn_heartbeat_logger and stop_heartbeat_logger calls made in one run.
MaxHbCalls == 4

\* Turns of its loop a heartbeat thread takes while the flag is set.
MaxTurns == 2

\* static HEARTBEAT_RUNNING: AtomicBool::new(false); no thread
InitHbIdle ==
    /\ HEARTBEAT_RUNNING = FALSE
    /\ hbThreads = << >>
    /\ hbPending = 0
    /\ hbCalls = 0

\* The heartbeat threads that have not left their loop.
Alive == { t \in DOMAIN hbThreads : hbThreads[t].alive }

\* spawn_heartbeat_logger, HEARTBEAT_RUNNING.swap(true): return when the flag
\* was set, else go on to spawn.
SpawnSwap ==
    /\ hbCalls < MaxHbCalls
    /\ hbCalls' = hbCalls + 1
    /\ HEARTBEAT_RUNNING' = TRUE
    /\ hbPending' = IF HEARTBEAT_RUNNING THEN hbPending ELSE hbPending + 1
    /\ UNCHANGED << hbThreads, mlVars, fsVars, netVars, menuVars, micVars, cliVars,
                    consoleVars, sinkVars, trayVars, windowVars >>

\* spawn_heartbeat_logger, thread::spawn
SpawnThread ==
    /\ hbPending > 0
    /\ hbPending' = hbPending - 1
    /\ hbThreads' = Append(hbThreads, [ alive |-> TRUE, turns |-> 0 ])
    /\ UNCHANGED << HEARTBEAT_RUNNING, hbCalls, mlVars, fsVars, netVars, menuVars, micVars, cliVars,
                    consoleVars, sinkVars, trayVars, windowVars >>

\* stop_heartbeat_logger: HEARTBEAT_RUNNING.store(false)
StopHeartbeat ==
    /\ hbCalls < MaxHbCalls
    /\ hbCalls' = hbCalls + 1
    /\ HEARTBEAT_RUNNING' = FALSE
    /\ UNCHANGED << hbThreads, hbPending, mlVars, fsVars, netVars, menuVars, micVars, cliVars,
                    consoleVars, sinkVars, trayVars, windowVars >>

\* One turn of a heartbeat thread: load the flag; log and sleep when it is set,
\* else leave the loop and exit.
HeartbeatTurn(t) ==
    /\ t \in Alive
    /\ HEARTBEAT_RUNNING => hbThreads[t].turns < MaxTurns
    /\ hbThreads' = [hbThreads EXCEPT ![t] =
                        IF HEARTBEAT_RUNNING THEN [ @ EXCEPT !.turns = @ + 1 ]
                        ELSE [ @ EXCEPT !.alive = FALSE ]]
    /\ UNCHANGED << HEARTBEAT_RUNNING, hbPending, hbCalls, mlVars, fsVars, netVars, menuVars, micVars, cliVars,
                    consoleVars, sinkVars, trayVars, windowVars >>

NextHeartbeat ==
    \/ SpawnSwap
    \/ SpawnThread
    \/ StopHeartbeat
    \/ \E t \in 1..MaxHbCalls : HeartbeatTurn(t)

\* ---------------------------------------------------------------- run_message_loop(Some(window))

\* GetMessageW calls made in one run.
MaxGets == 5

\* Messages waiting for the window at one time.
MaxQueued == 2

\* The messages tray-demo's window_proc tells apart; MSG::default() has message 0.
LoopMessages == { "WM_USER_TRAY_CALLBACK", "WM_CLOSE" }

MsgDefault == "0"

\* let mut msg = MSG::default(); the window was created, nothing is posted yet
InitMlIdle ==
    /\ mlValid = TRUE
    /\ mlQueue = << >>
    /\ mlQuit = FALSE
    /\ mlMsg = MsgDefault
    /\ mlRet = 1
    /\ mlPc = "get"
    /\ mlCalls = 0
    /\ mlDispatched = << >>

\* BOOL -> bool of `GetMessageW(..).into()`: any nonzero value is true.
BoolInto(r) == r # 0

\* GetMessageW(&mut msg, Some(hwnd), 0, 0): -1 and msg untouched for a window
\* that does not exist, else the oldest message of the window (nonzero), else
\* WM_QUIT (0) once PostQuitMessage was called; it blocks on an empty queue.
GetMessageWFor(valid, q, quit, m) ==
    IF ~valid THEN [ ret |-> -1, msg |-> m, q |-> q ]
    ELSE IF q # << >> THEN [ ret |-> 1, msg |-> Head(q), q |-> Tail(q) ]
    ELSE [ ret |-> 0, msg |-> "WM_QUIT", q |-> q ]

\* The shell or the user posts a message to the window.
MlPost(m) ==
    /\ mlValid
    /\ Len(mlQueue) < MaxQueued
    /\ mlQueue' = Append(mlQueue, m)
    /\ UNCHANGED << mlValid, mlQuit, mlMsg, mlRet, mlPc, mlCalls, mlDispatched,
                    hbVars, fsVars, netVars, menuVars, micVars, cliVars,
                    consoleVars, sinkVars, trayVars, windowVars >>

\* run_message_loop: the loop condition, while GetMessageW(..).into()
MlGet ==
    /\ mlPc = "get"
    /\ mlCalls < MaxGets
    /\ ~mlValid \/ mlQueue # << >> \/ mlQuit
    /\ LET g == GetMessageWFor(mlValid, mlQueue, mlQuit, mlMsg) IN
        /\ mlRet' = g.ret
        /\ mlMsg' = g.msg
        /\ mlQueue' = g.q
        /\ mlPc' = IF BoolInto(g.ret) THEN "dispatch" ELSE "returned"
    /\ mlCalls' = mlCalls + 1
    /\ UNCHANGED << mlValid, mlQuit, mlDispatched,
                    hbVars, fsVars, netVars, menuVars, micVars, cliVars,
                    consoleVars, sinkVars, trayVars, windowVars >>

\* run_message_loop: the loop body, TranslateMessage and DispatchMessageW.
\* window_proc on WM_CLOSE destroys the window, and its WM_DESTROY calls
\* PostQuitMessage; a message for a window that is gone reaches no procedure.
MlDispatch ==
    /\ mlPc = "dispatch"
    /\ mlDispatched' = Append(mlDispatched, [ msg |-> mlMsg, ret |-> mlRet ])
    /\ IF mlValid /\ mlMsg = "WM_CLOSE"
         THEN mlValid' = FALSE /\ mlQueue' = << >> /\ mlQuit' = TRUE
         ELSE UNCHANGED << mlValid, mlQueue, mlQuit >>
    /\ mlPc' = "get"
    /\ UNCHANGED << mlMsg, mlRet, mlCalls,
                    hbVars, fsVars, netVars, menuVars, micVars, cliVars,
                    consoleVars, sinkVars, trayVars, windowVars >>

NextMl ==
    \/ \E m \in LoopMessages : MlPost(m)
    \/ MlGet
    \/ MlDispatch

\* ---------------------------------------------------------------- file service

\* FsService calls made in one run.
MaxFsCalls == 4

\* The largest handle id a client passes.
MaxHandle == 3

FsPaths == { "a.wav", "b.wav" }

FsHandles == 0..MaxHandle

NoFsCall == [ op |-> "none", handle |-> 0, result |-> "none", n |-> 0 ]

\* FsServiceImpl::new(): no file open, next_handle = 1
InitFsIdle ==
    /\ files = << >>
    /\ next_handle = 1
    /\ fsOpening = << >>
    /\ fsIssued = << >>
    /\ fsClosed = { }
    /\ fsLast = NoFsCall
    /\ fsCalls = 0

FsCalled(op, h, result) == [ op |-> op, handle |-> h, result |-> result, n |-> fsCalls + 1 ]

\* HashMap::insert: the entry of the key is set, replacing one that exists.
insert(map, k, v) == [ x \in DOMAIN map \cup { k } |-> IF x = k THEN v ELSE map[x] ]

\* HashMap::remove
remove(map, k) == [ x \in DOMAIN map \ { k } |-> map[x] ]

\* What create_dir_all and OpenOptions::open can answer.
OpenOutcomes == { "ok", "Failed to create directories", "Failed to open" }

\* open, up to next_handle.fetch_add(1): an error of the file system is
\* returned at once, else the call takes the next id. The AtomicU32 wraps at
\* 2^32, which MaxFsCalls opens starting from 1 do not reach.
FsOpen(path, outcome) ==
    /\ fsCalls < MaxFsCalls
    /\ fsCalls' = fsCalls + 1
    /\ IF outcome # "ok"
         THEN /\ fsLast' = FsCalled("open", 0, outcome)
              /\ UNCHANGED << next_handle, fsOpening >>
         ELSE /\ next_handle' = next_handle + 1
              /\ fsOpening' = insert(fsOpening, next_handle, path)
              /\ UNCHANGED fsLast
    /\ UNCHANGED << files, fsIssued, fsClosed, hbVars, mlVars, netVars, menuVars, micVars, cliVars,
                    consoleVars, sinkVars, trayVars, windowVars >>

\* open, from self.state.lock(): insert the file under its id and return the handle.
FsOpenInsert(id) ==
    /\ id \in DOMAIN fsOpening
    /\ files' = insert(files, id, fsOpening[id])
    /\ fsOpening' = remove(fsOpening, id)
    /\ fsIssued' = Append(fsIssued, id)
    /\ fsLast' = [ op |-> "open", handle |-> id, result |-> "Ok", n |-> fsCalls ]
    /\ UNCHANGED << next_handle, fsClosed, fsCalls, hbVars, mlVars, netVars, menuVars, micVars, cliVars,
                    consoleVars, sinkVars, trayVars, windowVars >>

\* What write_all can answer.
WriteOutcomes == { "Ok", "Write failed" }

\* write_bytes: under the lock, write to the file of the handle.
write_bytes(map, h, io) ==
    IF h \in DOMAIN map THEN io ELSE "Invalid file handle"

\* write: the ShmBytes data is read first, then as write_bytes.
fs_write(map, h, shm, io) ==
    IF shm # "ok" THEN "Failed to access ShmBytes data"
    ELSE write_bytes(map, h, io)

FsWrite(h, shm, io) ==
    /\ fsCalls < MaxFsCalls
    /\ fsCalls' = fsCalls + 1
    /\ fsLast' = FsCalled("write", h, fs_write(files, h, shm, io))
    /\ UNCHANGED << files, next_handle, fsOpening, fsIssued, fsClosed,
                    hbVars, mlVars, netVars, menuVars, micVars, cliVars,
                    consoleVars, sinkVars, trayVars, windowVars >>

FsWriteBytes(h, io) ==
    /\ fsCalls < MaxFsCalls
    /\ fsCalls' = fsCalls + 1
    /\ fsLast' = FsCalled("write_bytes", h, write_bytes(files, h, io))
    /\ UNCHANGED << files, next_handle, fsOpening, fsIssued, fsClosed,
                    hbVars, mlVars, netVars, menuVars, micVars, cliVars,
                    consoleVars, sinkVars, trayVars, windowVars >>

\* close: under the lock, remove the file of the handle.
FsClose(h) ==
    /\ fsCalls < MaxFsCalls
    /\ fsCalls' = fsCalls + 1
    /\ IF h \in DOMAIN files
         THEN /\ files' = remove(files, h)
              /\ fsClosed' = fsClosed \cup { h }
              /\ fsLast' = FsCalled("close", h, "Ok")
         ELSE /\ fsLast' = FsCalled("close", h, "Invalid file handle")
              /\ UNCHANGED << files, fsClosed >>
    /\ UNCHANGED << next_handle, fsOpening, fsIssued, hbVars, mlVars, netVars, menuVars, micVars, cliVars,
                    consoleVars, sinkVars, trayVars, windowVars >>

NextFs ==
    \/ \E path \in FsPaths, outcome \in OpenOutcomes : FsOpen(path, outcome)
    \/ \E id \in 1..MaxFsCalls : FsOpenInsert(id)
    \/ \E h \in FsHandles, shm \in { "ok", "none" }, io \in WriteOutcomes : FsWrite(h, shm, io)
    \/ \E h \in FsHandles, io \in WriteOutcomes : FsWriteBytes(h, io)
    \/ \E h \in FsHandles : FsClose(h)

\* ---------------------------------------------------------------- network adapters

\* refresh calls made on one NetworkAdapters value.
MaxRefreshes == 2

\* 15 * 1024
WORKING_BUFFER_SIZE == 15360

MAX_RESIZE_ATTEMPTS == 4

\* The sizes GetAdaptersAddresses reports in buffer_size.
NetSizes == { 0, 376, WORKING_BUFFER_SIZE, 20480, 32768, 49152, 65536 }

\* The statuses refresh tells apart; "other" is any status it does not name.
NetStatuses ==
    { "NO_ERROR", "ERROR_BUFFER_OVERFLOW", "ERROR_NO_DATA", "ERROR_ADDRESS_NOT_ASSOCIATED",
      "ERROR_INVALID_PARAMETER", "ERROR_NOT_ENOUGH_MEMORY", "other" }

\* NetworkAdapters::default(): an empty buffer, refresh not called yet
InitNetIdle ==
    /\ netBuffer = 0
    /\ attempts = 0
    /\ netPc = "idle"
    /\ netCalls = 0
    /\ netStatus = "none"
    /\ netSize = 0
    /\ netRefreshes = 0

\* Vec::truncate: shorter or as it is
truncate(len, used) == IF used < len THEN used ELSE len

\* refresh giving up one overflow late.
refresh_match_late_bail(buf, att, status, buffer_size) ==
    CASE status = "ERROR_BUFFER_OVERFLOW" ->
           IF att + 1 > MAX_RESIZE_ATTEMPTS
           THEN [ buffer |-> buf, attempts |-> att + 1, pc |-> "err" ]
           ELSE [ buffer |-> buffer_size, attempts |-> att + 1, pc |-> "loop" ]
      [] status = "ERROR_NO_DATA" -> [ buffer |-> 0, attempts |-> att, pc |-> "ok" ]
      [] status = "NO_ERROR" ->
           [ buffer |-> truncate(buf, buffer_size), attempts |-> att, pc |-> "ok" ]
      [] OTHER -> [ buffer |-> buf, attempts |-> att, pc |-> "err" ]

\* refresh, the match on the status of one GetAdaptersAddresses call.
refresh_match(buf, att, status, buffer_size) ==
    CASE status = "ERROR_BUFFER_OVERFLOW" ->
           IF att + 1 >= MAX_RESIZE_ATTEMPTS
           THEN [ buffer |-> buf, attempts |-> att + 1, pc |-> "err" ]
           ELSE [ buffer |-> buffer_size, attempts |-> att + 1, pc |-> "loop" ]
      [] status = "ERROR_NO_DATA" -> [ buffer |-> 0, attempts |-> att, pc |-> "ok" ]
      [] status = "NO_ERROR" ->
           [ buffer |-> truncate(buf, buffer_size), attempts |-> att, pc |-> "ok" ]
      [] OTHER -> [ buffer |-> buf, attempts |-> att, pc |-> "err" ]

\* What GetAdaptersAddresses leaves in buffer_size: the size required on
\* ERROR_BUFFER_OVERFLOW (more than the buffer has), the size used on
\* NO_ERROR (no more than the buffer has), else the size passed in.
ReportedSizes(buf, status) ==
    CASE status = "ERROR_BUFFER_OVERFLOW" -> { z \in NetSizes : z > buf }
      [] status = "NO_ERROR" -> { z \in NetSizes : z <= buf } \cup { buf }
      [] OTHER -> { buf }

\* refresh, up to the loop: an empty buffer gets the working size.
Refresh ==
    /\ netPc # "loop"
    /\ netRefreshes < MaxRefreshes
    /\ netRefreshes' = netRefreshes + 1
    /\ netBuffer' = IF netBuffer = 0 THEN WORKING_BUFFER_SIZE ELSE netBuffer
    /\ attempts' = 0
    /\ netCalls' = 0
    /\ netPc' = "loop"
    /\ UNCHANGED << netStatus, netSize, hbVars, mlVars, fsVars, menuVars, micVars, cliVars,
                    consoleVars, sinkVars, trayVars, windowVars >>

\* refresh, one turn of the loop: GetAdaptersAddresses and the match.
RefreshCall(status) ==
    /\ netPc = "loop"
    /\ \E buffer_size \in ReportedSizes(netBuffer, status) :
         LET r == refresh_match(netBuffer, attempts, status, buffer_size) IN
           /\ netBuffer' = r.buffer
           /\ attempts' = r.attempts
           /\ netPc' = r.pc
           /\ netSize' = buffer_size
    /\ netStatus' = status
    /\ netCalls' = netCalls + 1
    /\ UNCHANGED << netRefreshes, hbVars, mlVars, fsVars, menuVars, micVars, cliVars,
                    consoleVars, sinkVars, trayVars, windowVars >>

NextNet ==
    \/ Refresh
    \/ \E status \in NetStatuses : RefreshCall(status)

\* ---------------------------------------------------------------- specifications

\* The subsystems added last, at rest.
InitMoreIdle == InitHbIdle /\ InitMlIdle /\ InitFsIdle /\ InitNetIdle

\* The subsystems outside the tray-console demo, at rest.
InitExtIdle == InitMenuIdle /\ InitMicIdle /\ InitCliIdle /\ InitMoreIdle

\* The console state of a process started without a console, at rest.
InitConsoleIdle ==
    /\ mode = "Detached"
    /\ inherited_console_available = FALSE
    /\ log_buffer = << >>
    /\ attached = "None"
    /\ hOut = "None"
    /\ hErr = "None"
    /\ con = << >>
    /\ debug_enabled = FALSE
    /\ last = NoOp
    /\ rt = "start"
    /\ detachRun = 0

Next ==
    \/ ShowLogs
    \/ HideLogs
    \/ Heartbeat

\* The tray-console demo: window messages on the UI thread, and the heartbeat.
Init == InitConsole /\ InitSinkIdle /\ InitTrayIdle /\ InitWindowIdle /\ InitExtIdle

Spec == Init /\ [][Next]_vars

\* Threads writing to, and the UI thread replaying, one BufferSink.
InitSink == InitConsoleIdle /\ InitSinkIdle /\ InitTrayIdle /\ InitWindowIdle /\ InitExtIdle

SpecSink == InitSink /\ [][NextSink]_vars

\* The tray icon's calls against the shell.
InitTray == InitConsoleIdle /\ InitSinkIdle /\ InitTrayIdle /\ InitWindowIdle /\ InitExtIdle

SpecTray == InitTray /\ [][NextTray]_vars

\* The tray window: its creation, the messages posted to it and the message loop.
InitWindow == InitWindowConsole /\ InitSinkIdle /\ InitTrayIdle /\ InitWindowIdle /\ InitExtIdle

SpecWindow == InitWindow /\ [][NextWindow]_vars

\* A step of the UI thread from DispatchMessageW back to GetMessageW: window_proc
\* has returned. LoopDispatch is the only action that takes it, and it can be
\* taken whenever a message has been retrieved.
DispatchReturns == loop = "dispatch" /\ loop' = "get"

\* One context-menu query for a path.
InitMenu == InitConsoleIdle /\ InitSinkIdle /\ InitTrayIdle /\ InitWindowIdle
            /\ InitMenuQuery /\ InitMicIdle /\ InitCliIdle /\ InitMoreIdle

SpecMenu == InitMenu /\ [][NextMenu]_vars

\* The microphone service and its recording threads.
InitMic == InitConsoleIdle /\ InitSinkIdle /\ InitTrayIdle /\ InitWindowIdle
           /\ InitMenuIdle /\ InitMicIdle /\ InitCliIdle /\ InitMoreIdle

SpecMic == InitMic /\ [][NextMic]_vars

\* The round trip test of the command line.
InitCli ==
    /\ InitConsoleIdle /\ InitSinkIdle /\ InitTrayIdle /\ InitWindowIdle
    /\ InitMenuIdle /\ InitMicIdle /\ InitCliGenerated /\ InitMoreIdle

SpecCli == InitCli /\ [][NextCli]_vars

\* The heartbeat logger under spawn and stop calls.
InitHeartbeat ==
    InitConsoleIdle /\ InitSinkIdle /\ InitTrayIdle /\ InitWindowIdle /\ InitExtIdle

SpecHeartbeat == InitHeartbeat /\ [][NextHeartbeat]_vars

\* tray-demo: run_message_loop(Some(window)) on the window it created.
InitMl ==
    InitConsoleIdle /\ InitSinkIdle /\ InitTrayIdle /\ InitWindowIdle /\ InitExtIdle

SpecMl == InitMl /\ [][NextMl]_vars

\* The file service under concurrent calls.
InitFs ==
    InitConsoleIdle /\ InitSinkIdle /\ InitTrayIdle /\ InitWindowIdle /\ InitExtIdle

SpecFs == InitFs /\ [][NextFs]_vars

\* A NetworkAdapters value and its refresh calls.
InitNet ==
    InitConsoleIdle /\ InitSinkIdle /\ InitTrayIdle /\ InitWindowIdle /\ InitExtIdle

SpecNet == InitNet /\ [][NextNet]_vars

\* Every heartbeat thread is scheduled: it wakes from its sleep and loads the flag.
SpecHeartbeatFair ==
    SpecHeartbeat /\ \A t \in 1..MaxHbCalls : WF_vars(HeartbeatTurn(t))

\* The UI thread keeps running: GetMessageW returns when it can, and a message
\* that was retrieved is dispatched.
SpecWindowFair == SpecWindow /\ WF_vars(LoopGet) /\ WF_loop(DispatchReturns)

\* ---------------------------------------------------------------- claims: console state machine

IsShow == last.op = "show"
IsHide == last.op = "hide"

\* C1: show_logs called while mode is Owned, and hide_logs called while mode is
\* Detached or Inherited, return success, issue no console detach, allocate,
\* attach or replay call, and leave mode unchanged.
C1_NotApplicableIsNoOp ==
    /\ (IsShow /\ last.pre_mode = "Owned") =>
           (last.ok /\ last.calls = << >> /\ mode = "Owned")
    /\ (IsHide /\ last.pre_mode # "Owned") =>
           (last.ok /\ last.calls = << >> /\ mode = last.pre_mode)

C1_Witness == IsShow /\ last.pre_mode = "Owned" /\ attached = "Own"

\* C2: from construction with inherited_console_available = b and every OS call
\* succeeding, hide_logs (a no-op), show_logs, hide_logs passes through Owned
\* and ends in the initial mode: Inherited when b, Detached otherwise.
C2_RoundTrip ==
    /\ rt = "h" => mode = InitialMode(inherited_console_available)
    /\ rt = "hs" => mode = "Owned"
    /\ rt = "hsh" => mode = InitialMode(inherited_console_available)

C2_Witness == rt = "hsh" /\ inherited_console_available /\ attached = "Parent"

\* C3 (as claimed): no console allocation is issued while mode is Owned, and
\* show_logs never detaches twice in a row without an intervening hide_logs.
C3_NoRepeatedTransition ==
    /\ \A i \in 1..Len(last.calls) :
           last.calls[i].call = "AllocConsole" => last.pre_mode # "Owned"
    /\ detachRun <= 1

StdoutOf(c) ==
    LET sel == SelectSeq(c, LAMBDA e : e.src = "stdout")
    IN [i \in 1..Len(sel) |-> sel[i].line]

\* C5: after a successful show_logs the replay has written to stdout exactly the
\* header line, the buffer as it stood (in append order), and the footer line,
\* and that is the standard output of the new console.
C5_ReplayVerbatim ==
    (IsShow /\ last.ok /\ last.pre_mode # "Owned") =>
        /\ last.out = << HDR >> \o last.snap \o << FTR >>
        /\ StdoutOf(con) = last.out

C5_Witness ==
    /\ IsShow /\ last.ok /\ last.pre_mode = "Inherited"
    /\ Len(last.snap) >= 3
    /\ Len(StdoutOf(con)) = Len(last.snap) + 2

\* C6 (as claimed): on the allocated console no live log line (stderr) is shown
\* before the replay's end marker.
C6_ReplayBeforeLive ==
    (mode = "Owned" /\ attached = "Own") =>
        \A i, j \in 1..Len(con) :
            (con[i].src = "stderr" /\ con[j] = [src |-> "stdout", line |-> FTR]) => j < i

\* C7: the buffer is append-only: every step leaves the old content as a prefix
\* of the new content, and a replay leaves the content it replayed in place.
C7_AppendOnly ==
    [][ /\ IsPrefix(log_buffer, log_buffer')
        /\ (last'.op = "show" /\ Len(last'.out) > 0) => IsPrefix(last'.snap, log_buffer') ]_vars

C7_Witness ==
    /\ IsHide /\ last.ok /\ last.pre_mode = "Owned"
    /\ Len(log_buffer) >= 5

\* ---------------------------------------------------------------- claims: BufferSink under concurrency

RECURSIVE Chunks(_, _)
\* The first n payloads of thread t, one after the other.
Chunks(t, n) == IF n = 0 THEN << >> ELSE Chunks(t, n - 1) \o Payload(t, n)

OfThread(bytes, t) == SelectSeq(bytes, LAMBDA e : e.t = t)

\* Every byte sits inside a complete, contiguous copy of its payload.
WholePayloads(bytes) ==
    \A i \in 1..Len(bytes) :
        LET p == Payload(bytes[i].t, bytes[i].k)
            from == i - bytes[i].b
        IN /\ from + Len(p) <= Len(bytes)
           /\ \A j \in 1..Len(p) : bytes[from + j] = p[j]

\* The buffer without the payload the lock's holder is still copying.
Settled ==
    LET partial == IF mutex \in Threads /\ pc[mutex] \in {"copy", "unlock"}
                   THEN wi[mutex] ELSE 0
    IN SubSeq(buffer, 1, Len(buffer) - partial)

\* C8: under any interleaving of write calls, the buffer is an interleaving of
\* whole payloads (each contiguous, none lost or duplicated, each thread's in
\* order), and a concurrent replay outputs the buffer of one single instant.
C8_WritesAtomic ==
    /\ WholePayloads(Settled)
    /\ \A t \in Threads : OfThread(Settled, t) = Chunks(t, sent[t])
    /\ pc["ui"] \in {"r_hdr", "r_body", "r_ftr", "r_unlock"} =>
           (buffer = rsnap /\ WholePayloads(rsnap))
    /\ rres = "ok" => rout = << HDR >> \o rsnap \o << FTR >>

C8_Witness ==
    /\ rres = "ok" /\ pc["ui"] = "r_unlock"
    /\ Len(rsnap) >= 3
    /\ pc["heartbeat"] = "idle" /\ sent["heartbeat"] < MaxWrites
    /\ \E t \in Threads \ {"ui"} : sent[t] >= 1
    /\ \E i \in 1..(Len(rsnap) - 1) : rsnap[i].t # rsnap[i + 1].t

\* ---------------------------------------------------------------- claims: tray icon

\* C9: re_add_tray_icon issues exactly one NIM_ADD whose window, icon, ID and
\* 128-unit tooltip are those of the most recent successful add_tray_icon, and a
\* failed add_tray_icon never overwrites the stored descriptor.
C9_ReAddReplaysLastGood ==
    /\ (TRAY_STATE = None) = (lastGood = None)
    /\ TRAY_STATE # None =>
           NotifyIconData(TRAY_STATE[1].hwnd_bits, TRAY_STATE[1].hicon_bits,
                          TRAY_STATE[1].tip) = lastGood[1]
    /\ (trayLast.op = "re_add" /\ lastGood # None) =>
           /\ trayLast.calls = << [msg |-> "NIM_ADD", nid |-> lastGood[1]] >>
           /\ Len(lastGood[1].szTip) = TipLen

C9_Witness ==
    /\ trayLast.op = "re_add" /\ trayLast.ok
    /\ lastGood # None /\ lastGood[1].szTip[2] = 67
    /\ shell[lastGood[1].hWnd] = lastGood
    /\ \E h \in Hwnds : h # lastGood[1].hWnd /\ shell[h] = None

\* C10 (as claimed): a delete_tray_icon that follows a successful delete for the
\* same window (the icon is already removed) returns success as well.
C10_DeleteIdempotent ==
    (trayLast.op = "delete" /\ trayLast.again) => trayLast.ok

\* ---------------------------------------------------------------- claims: window procedure

IsTaskbarCreated == wlast.msg = "WM_TASKBAR_CREATED"
IsTrayCallback == wlast.msg = "WM_USER_TRAY_CALLBACK"

\* C11: re_add_tray_icon called when no add_tray_icon has ever succeeded returns
\* an error and issues no shell registration call (no icon gets registered); the
\* window procedure logs that error and returns 0 for the taskbar-created message.
C11_ReAddWithoutState ==
    /\ lastGood = None => \A h \in Hwnds : shell[h] = None
    /\ (IsTaskbarCreated /\ lastGood = None) =>
           /\ wlast.tray_calls = << >>
           /\ wlast.errs = 1
           /\ log_buffer[Len(log_buffer)] = "Failed to re-add tray icon after Explorer restart"
           /\ wlast.ret = 0

C11_Witness ==
    /\ IsTaskbarCreated /\ lastGood = None
    /\ TRAY_STATE = None /\ trayLast.op = "none"
    /\ wlast.errs = 1 /\ loop = "get"

\* C12 (as claimed): whatever OS calls fail inside a handler, window_proc logs
\* each failure, returns a result code, and the message loop goes on (it returns
\* only after a quit has been posted).
C12_FailuresLogged ==
    /\ wlast.silent \cap MenuCalls = {}
    /\ wlast.ret \in {0, -1}
    /\ loop = "returned" => quitPosted

\* C14: handling the destroy message always attempts to remove the tray icon,
\* clears the user-data slot, frees the state exactly once and posts the quit,
\* also when the removal fails; a tray callback handled afterwards finds no state,
\* runs no handler on it and makes no console call.
C14_DestroyReleasesState ==
    /\ wlast.destroy =>
           /\ \E i \in 1..Len(wlast.tray_calls) :
                  wlast.tray_calls[i] =
                      [msg |-> "NIM_DELETE", nid |-> [hWnd |-> TrayHwnd, uID |-> TRAY_ICON_ID]]
           /\ userdata = 0
           /\ quitPosted
           /\ wlast.hadState => (heap = "freed" /\ frees = 1)
    /\ frees = (IF heap = "freed" THEN 1 ELSE 0)
    /\ userdata # 0 <=> heap = "live"
    /\ (IsTrayCallback /\ heap # "live") => (~wlast.found /\ wlast.con_calls = 0 /\ wlast.errs = 0)

C14_Witness ==
    /\ IsTrayCallback /\ wlast.lparam = "WM_LBUTTONDBLCLK"
    /\ heap = "freed" /\ frees = 1 /\ userdata = 0 /\ quitPosted
    /\ win = "alive"
    /\ log_buffer[Len(log_buffer)] = "Failed to delete tray icon"

\* C15 (as claimed): run_message_loop returns only after a quit has been posted;
\* every message retrieved is dispatched exactly once, in retrieval order; and
\* once Exit is selected in the tray menu, or a close message is delivered,
\* run_message_loop eventually returns.
C15_ExitEndsLoop ==
    /\ [](loop = "returned" => quitPosted)
    /\ [](/\ IsPrefix(dispatched, retrieved)
          /\ Len(retrieved) - Len(dispatched) = (IF loop = "dispatch" THEN 1 ELSE 0))
    /\ (exitState # "no") ~> (loop = "returned")

\* C16: the configuration is set exactly once: a configure_tray_console call on
\* an empty cell succeeds and stores its argument, a call on a set cell returns
\* an error and leaves the cell as it is; the creation message handled with an
\* empty cell returns -1 and attaches no state, and handled with a set cell it
\* attaches a state whose mode is Inherited exactly when the configuration's
\* inherited_console_available is true, else Detached.
C16_ConfiguredOnce ==
    [][ /\ CONFIG # None => CONFIG' = CONFIG
        /\ (cfgLast' # cfgLast \/ CONFIG' # CONFIG) =>
               /\ cfgLast'.before = CONFIG
               /\ cfgLast'.ok = (CONFIG = None)
               /\ CONFIG = None =>
                      CONFIG' = Some([inherited_console_available |-> attached = "Parent"])
        /\ creates' # creates =>
               /\ wlast'.msg = "WM_CREATE"
               /\ CONFIG = None =>
                      (wlast'.ret = -1 /\ userdata' = 0 /\ heap' = "none" /\ win' = "failed")
               /\ CONFIG # None =>
                      /\ wlast'.ret = 0 /\ userdata' # 0 /\ heap' = "live" /\ win' = "alive"
                      /\ inherited_console_available' = CONFIG[1].inherited_console_available
                      /\ mode' = (IF CONFIG[1].inherited_console_available
                                  THEN "Inherited" ELSE "Detached") ]_vars

C16_Witness ==
    /\ ~cfgLast.ok /\ cfgLast.before = CONFIG
    /\ CONFIG = Some([inherited_console_available |-> TRUE])
    /\ wlast.msg = "WM_CREATE" /\ wlast.ret = 0
    /\ mode = "Inherited" /\ heap = "live" /\ loop = "main"

\* ---------------------------------------------------------------- claims: show_logs and retries

\* The OS-level steps of the last show_logs / hide_logs call, by name.
CallNames == [i \in 1..Len(last.calls) |-> last.calls[i].call]

\* The steps of a complete show_logs from the mode it was called in.
ShowSteps ==
    (IF last.pre_mode = "Inherited" THEN << "FreeConsole" >> ELSE << >>)
    \o << "AllocConsole", "replay" >>

\* C20: a successful show_logs from Inherited issues exactly one console detach,
\* then one console allocation, then the buffer replay, and sets mode to Owned;
\* from Detached it issues no detach; when a step fails no later step runs and
\* mode stays what it was.
C20_ShowSequence ==
    (IsShow /\ last.pre_mode # "Owned") =>
        /\ IsPrefix(CallNames, ShowSteps)
        /\ \A i \in 1..(Len(last.calls) - 1) : last.calls[i].ok
        /\ last.ok => /\ CallNames = ShowSteps
                      /\ \A i \in 1..Len(last.calls) : last.calls[i].ok
                      /\ mode = "Owned"
        /\ ~last.ok => mode = last.pre_mode

C20_Witness ==
    /\ IsShow /\ last.pre_mode = "Inherited" /\ last.ok
    /\ CallNames = << "FreeConsole", "AllocConsole", "replay" >>
    /\ mode = "Owned" /\ attached = "Own"

\* How many menu selections in a row a retry is given.
RetryDepth == 3

\* No OS call fails for a reason of its own, and the heartbeat stays out of the way.
NoFault == [ fail |-> "none", ctrl |-> TRUE, ansi |-> TRUE, hb |-> "none" ]

\* The worlds one menu selection leads to when OS calls fail only on a violated
\* precondition: Show logs is enabled unless the mode is Owned, Hide logs only
\* when it is; the handler logs the error of a failed call and goes on.
MenuSteps(w) ==
    { IF r.ok THEN r.w ELSE LogLine(r.w, "Failed to show logs") :
        r \in IF can_show_logs(w) THEN { show_logs(w, NoFault) } ELSE {} }
    \cup
    { IF r.ok THEN r.w ELSE LogLine(r.w, "Failed to hide logs") :
        r \in IF can_hide_logs(w) THEN { hide_logs(w, [fail |-> "none"]) } ELSE {} }

Shown(w) == w.mode = "Owned" /\ w.attached = "Own"

Hidden(w) == w.mode \in {"Detached", "Inherited"} /\ w.attached # "Own"

\* Some sequence of at most n menu selections leads from w to the goal.
RECURSIVE CanReach(_, _, _)
CanReach(w, goal, n) ==
    \/ (IF goal = "shown" THEN Shown(w) ELSE Hidden(w))
    \/ /\ n > 0
       /\ \E w2 \in MenuSteps(w) : CanReach(w2, goal, n - 1)

\* C13 (as claimed): after show_logs or hide_logs has failed at an OS call, when
\* OS calls from then on fail only on a violated precondition, some sequence of
\* menu selections reaches mode Owned with the allocated console attached, and
\* some sequence reaches a hidden mode with no owned console attached.
C13_Retriggerable ==
    (last.op # "none" /\ ~last.ok) =>
        /\ CanReach(World, "shown", RetryDepth)
        /\ CanReach(World, "hidden", RetryDepth)

\* ---------------------------------------------------------------- claims: shell context menu

\* The items of a menu that GetMenuItemInfoW can read, in position order.
Readable(menu) == SelectSeq(menu, LAMBDA info : info.ok)

\* Every separator entry has an empty label and verb, every other entry a
\* non-empty label, and entry k stands for the k-th readable position; the
\* same at every depth.
RECURSIVE WellFormedEntries(_, _)
WellFormedEntries(es, menu) ==
    /\ Len(es) = Len(Readable(menu))
    /\ \A k \in 1..Len(es) :
         LET info == Readable(menu)[k] IN
         /\ es[k].is_separator = HasFlag(info.fType, MFT_SEPARATOR)
         /\ es[k].is_separator => (es[k].label = << >> /\ es[k].verb = << >>)
         /\ ~es[k].is_separator =>
                /\ es[k].label # << >>
                /\ es[k].id = info.wID
                /\ WellFormedEntries(es[k].sub_items,
                                     IF info.hSubMenu # None THEN info.hSubMenu[1] ELSE << >>)

\* C17 (as claimed): in the entry tree get_context_menu_entries returns, at
\* every depth, each separator entry has an empty label and an empty verb, each
\* other entry has a non-empty label, and the entries keep the order of the
\* menu positions.
C17_EntriesWellFormed ==
    (entries # None /\ entries[1].ok) => WellFormedEntries(entries[1].entries, hmenu)

\* ---------------------------------------------------------------- claims: microphone service

\* The results with which drain_to_wav has consumed a session.
Consumed ==
    { "Ok", "No audio data recorded", "Failed to allocate ShmBytes",
      "Failed to access ShmBytes slice" }

\* C18: drain_to_wav consumes a device's session exactly when that session is
\* not recording. On a stopped session it removes the session, whether it
\* returns the audio or an error, so that a drain_to_wav right after it returns
\* "No recording data" and start_recording finds no session for the device; on
\* a session that is recording it returns an error and leaves the session as it
\* is; without a session it changes nothing; other devices are never touched.
C18_DrainConsumesStopped ==
    [][ (micLast' # micLast /\ micLast'.op = "drain") =>
          LET d == micLast'.device
              before == sessions[d]
          IN /\ micLast'.before = before
             /\ \A e \in Devices \ {d} : sessions'[e] = sessions[e]
             /\ (before # None /\ ~before[1].is_recording) =>
                    /\ micLast'.result \in Consumed
                    /\ micLast'.result = "No audio data recorded" <=> before[1].audio = 0
                    /\ sessions'[d] = None
                    /\ \A shm \in ShmOutcomes :
                          drain_to_wav(sessions', d, shm).result = "No recording data"
                    /\ ~contains_key(sessions', d)
             /\ (before # None /\ before[1].is_recording) =>
                    /\ micLast'.result = "Recording still in progress"
                    /\ sessions' = sessions
             /\ before = None =>
                    /\ micLast'.result = "No recording data"
                    /\ sessions' = sessions ]_vars

\* A session stopped without audio was drained ("No audio data recorded"), and
\* the drain right after it found no recording data.
C18_Witness ==
    /\ micLast.op = "drain" /\ micLast.result = "No recording data"
    /\ micLast.before = None
    /\ micLast.prev.op = "drain" /\ micLast.prev.device = micLast.device
    /\ micLast.prev.result = "No audio data recorded"
    /\ sessions[micLast.device] = None

(* ---------------------------------------------------------------------- *)
(* claims: command line                                                   *)
(* ---------------------------------------------------------------------- *)

\* C19: for every Cli the generator produces, parsing the program name followed
\* by cli.to_args() succeeds and yields a Cli equal to the original.
C19_RoundTrip ==
    parsed # None => (parsed[1].ok /\ parsed[1].cli = cli[1])

(* ---------------------------------------------------------------------- *)
(* claims: mode and the real console                                      *)
(* ---------------------------------------------------------------------- *)

\* The console attachment a mode stands for.
AttachedFor(m) ==
    CASE m = "Owned" -> "Own" [] m = "Inherited" -> "Parent" [] m = "Detached" -> "None"

\* A show_logs or hide_logs call that returned an error has left the console
\* attachment and both standard handles as they were.
FailureKeepsConsole ==
    (last'.op # "none" /\ ~last'.ok /\ log_buffer' # log_buffer)
        => (attached' = attached /\ hOut' = hOut /\ hErr' = hErr)

\* C21: a show_logs or hide_logs call that returns an error leaves the console
\* attachment and the standard handles as they were before the call, so mode
\* goes on describing the real console after every call: Owned exactly when a
\* console allocated by this process is attached, Inherited exactly when the
\* parent's console is attached, Detached exactly when none is attached.
C21_ModeDescribesConsole ==
    [][ /\ FailureKeepsConsole
        /\ attached = AttachedFor(mode) => attached' = AttachedFor(mode') ]_vars

(* ---------------------------------------------------------------------- *)
(* claims: microphone service, concurrent calls                           *)
(* ---------------------------------------------------------------------- *)

\* A stop_recording call returns Ok in this step.
StopReturnsOk ==
    micLast' # micLast /\ micLast'.op = "stop" /\ micLast'.result = "Ok"

\* A drain_to_wav call on the session the last call, a successful
\* stop_recording, has stopped.
DrainAfterStop ==
    /\ micLast' # micLast /\ micLast'.op = "drain"
    /\ micLast.op = "stop" /\ micLast.result = "Ok" /\ micLast.device = micLast'.device
    /\ sessions[micLast.device] # None
    /\ sessions[micLast.device][1].started_at = micLast.sid

\* C22: stop_recording on a recording session returns Ok only after the
\* session's recording thread has terminated and the session's is_recording is
\* false, so a drain_to_wav issued after a successful stop_recording never
\* fails with "Recording still in progress"; for every interleaving of
\* concurrent stop_recording calls on the same device.
C22_StopWaitsForThread ==
    [][ /\ StopReturnsOk =>
              LET d == micLast'.device
                  t == micLast'.sid
              IN /\ ~Running(threads'[t])
                 /\ (sessions'[d] # None /\ sessions'[d][1].started_at = t)
                        => ~sessions'[d][1].is_recording
        /\ DrainAfterStop => micLast'.result # "Recording still in progress" ]_vars

\* C23: when a recording thread has finished capturing, its audio is stored in
\* the device's session and the session is not recording, whenever the thread
\* finishes relative to start_recording's insertion of the session: no session
\* is recording after its thread has exited.
C23_FinishedThreadStores ==
    \A d \in Devices :
        sessions[d] # None =>
            LET t == sessions[d][1].started_at IN
            (threads[t].st = "ended" /\ ~threads[t].err) =>
                /\ ~sessions[d][1].is_recording
                /\ sessions[d][1].audio = threads[t].audio

\* The recording threads capturing, or about to capture, from device d.
ThreadsOf(d) ==
    { t \in DOMAIN threads : threads[t].dev = d /\ threads[t].st \in { "starting", "capturing" } }

\* No step puts another session in the place of a device's session.
SessionNotReplaced ==
    \A d \in Devices :
        (sessions[d] # None /\ sessions'[d] # None)
            => sessions'[d][1].started_at = sessions[d][1].started_at

\* C24: for every interleaving of concurrent start_recording calls for one
\* device, at most one recording thread runs for the device at any time, and no
\* call replaces the device's existing session.
C24_OneThreadPerDevice ==
    [](\A d \in Devices : Cardinality(ThreadsOf(d)) <= 1) /\ [][SessionNotReplaced]_vars

(* ---------------------------------------------------------------------- *)
(* claims: tray icon after deletion                                       *)
(* ---------------------------------------------------------------------- *)

\* C25: once delete_tray_icon has removed a window's icon, a re_add_tray_icon
\* that follows it (no add_tray_icon in between) does not register the icon
\* again: the shell still has no icon for the window.
C25_DeletedStaysDeleted ==
    [][ (trayLast.op = "delete" /\ trayLast.ok /\ trayLast'.op = "re_add")
            => shell'[trayLast.hwnd] = None ]_vars

(* ---------------------------------------------------------------------- *)
(* claims: heartbeat logger                                               *)
(* ---------------------------------------------------------------------- *)

\* C26: for any sequence and interleaving of spawn_heartbeat_logger and
\* stop_heartbeat_logger calls at most one heartbeat thread is alive at any
\* time, and once the flag stays cleared (a stop that no spawn follows) every
\* heartbeat thread eventually exits.
C26_OneHeartbeat ==
    /\ [](Cardinality(Alive) <= 1)
    /\ <>[](~HEARTBEAT_RUNNING) => <>[](Alive = { })

(* ---------------------------------------------------------------------- *)
(* claims: run_message_loop on a window                                   *)
(* ---------------------------------------------------------------------- *)

\* A GetMessageW call has just reported an error.
GetFailed == mlCalls' # mlCalls /\ mlRet' = -1

\* C27: run_message_loop dispatches only messages that GetMessageW retrieved
\* (a positive return value), and when GetMessageW reports -1 the loop
\* dispatches nothing for that call and ends instead of calling again.
C27_DispatchesRetrievedOnly ==
    /\ [](\A i \in DOMAIN mlDispatched : mlDispatched[i].ret > 0)
    /\ [][GetFailed => mlPc' = "returned"]_vars

(* ---------------------------------------------------------------------- *)
(* claims: file service                                                   *)
(* ---------------------------------------------------------------------- *)

\* The handle was returned by an open and no close has closed it.
ValidHandle(h) ==
    /\ \E i \in DOMAIN fsIssued : fsIssued[i] = h
    /\ h \notin fsClosed

\* A write, write_bytes or close call has just returned.
HandleCallReturns ==
    fsLast' # fsLast /\ fsLast'.op \in { "write", "write_bytes", "close" }

\* C28: the handle ids open returns are pairwise distinct under any
\* interleaving of opens, and write, write_bytes or close on a handle that no
\* open returned or that was closed returns "Invalid file handle" and leaves
\* the set of open files as it was.
C28_HandleValidity ==
    /\ [](\A i, j \in DOMAIN fsIssued : fsIssued[i] = fsIssued[j] => i = j)
    /\ [][ (HandleCallReturns /\ ~ValidHandle(fsLast'.handle)) =>
              (fsLast'.result = "Invalid file handle" /\ files' = files) ]_vars

(* ---------------------------------------------------------------------- *)
(* claims: network adapters                                               *)
(* ---------------------------------------------------------------------- *)

\* A GetAdaptersAddresses call of refresh has just returned.
AdaptersCalled == netCalls' = netCalls + 1

\* C29: refresh makes at most 4 calls to GetAdaptersAddresses; on
\* ERROR_BUFFER_OVERFLOW it resizes the buffer to the requested size and
\* retries, but returns an error on the 4th overflow; any other status ends
\* it at once: NO_ERROR truncates the buffer to the used size, ERROR_NO_DATA
\* empties it, every other status is an error.
C29_RefreshTerminates ==
    /\ [](netCalls <= 4 /\ (netPc = "loop" => netCalls < 4))
    /\ [][ AdaptersCalled =>
             CASE netStatus' = "ERROR_BUFFER_OVERFLOW" ->
                    IF netCalls' = 4
                    THEN netPc' = "err"
                    ELSE netPc' = "loop" /\ netBuffer' = netSize'
               [] netStatus' = "NO_ERROR" ->
                    netPc' = "ok" /\ netBuffer' <= netSize' /\ netBuffer' <= netBuffer
                    /\ (netSize' <= netBuffer => netBuffer' = netSize')
               [] netStatus' = "ERROR_NO_DATA" -> netPc' = "ok" /\ netBuffer' = 0
               [] OTHER -> netPc' = "err" ]_vars

\* The fourth call of a refresh overflowed again and refresh gave up.
C29_Witness ==
    netPc = "err" /\ netCalls = 4 /\ netStatus = "ERROR_BUFFER_OVERFLOW"

(* ---------------------------------------------------------------------- *)
(* claims: the context menu's items                                       *)
(* ---------------------------------------------------------------------- *)

\* window_proc has just handled a message in which the context menu was shown.
MenuShown == Len(dispatched') > Len(dispatched) /\ wlast'.menu # None

\* Selecting the item would return without an OS call.
ShowIsNoOp == show_logs(World, NoOutcome.so).w.calls = << >>

HideIsNoOp == hide_logs(World, NoOutcome.ho).w.calls = << >>

\* C30: whenever the context menu is shown, Show logs is enabled exactly when
\* mode is not Owned and Hide logs exactly when mode is Owned: exactly one of
\* the two is enabled, and it is the one whose operation is not a no-op.
C30_MenuFollowsMode ==
    [][ MenuShown =>
          LET m == wlast'.menu[1] IN
            /\ (m.show = "enabled") <=> (mode # "Owned")
            /\ (m.hide = "enabled") <=> (mode = "Owned")
            /\ (m.show = "enabled") # (m.hide = "enabled")
            /\ m.show = "enabled" => ~ShowIsNoOp
            /\ m.hide = "enabled" => ~HideIsNoOp ]_vars

====
